---- MODULE Spec2Model ----
(***************************************************************************)
(* Valuation core of Net_Net_Global_Scanner: trend pairing and windowed    *)
(* dilution extrema (domain/services/trend_analysis.py), currency          *)
(* conversion (fx_utils.py), balance-sheet metrics                         *)
(* (balance_sheet_metrics.py), the orchestrator (netnet_analysis.py) and   *)
(* the viable-snapshot selector (tools/ncav_cache.py).                     *)
(*                                                                         *)
(* Python values are modelled as tagged records: None, exact rationals for *)
(* floats (rounding is not modelled), strings, datetimes; a Python dict is *)
(* a function on its keys.  A raised exception is the value Raise(e).      *)
(* Every component is a pure function; a specification draws the call's   *)
(* arguments in its initial states and each action applies one function.   *)
(***************************************************************************)
EXTENDS Integers, Sequences, FiniteSets, TLC

VARIABLES pc, input, output

vars == <<pc, input, output>>

----------------------------------------------------------------------------
(* Python values *)

None == [k |-> "None"]

\* the tag of a value; a dict has none
Tag(x) == IF "k" \in DOMAIN x THEN x.k ELSE "dict"

IsNone(x) == Tag(x) = "None"

Raise(e) == [k |-> "raise", exc |-> e]

IsRaise(x) == Tag(x) = "raise"

Str(s) == [k |-> "str", s |-> s]

IsStr(x) == Tag(x) = "str"

Abs(x) == IF x < 0 THEN -x ELSE x

RECURSIVE Gcd(_, _)
Gcd(a, b) == IF b = 0 THEN a ELSE Gcd(b, a % b)

\* the float n/d, d # 0, in lowest terms with a positive denominator
Rat(n, d) ==
    LET s == IF d < 0 THEN -1 ELSE 1
        g == Gcd(Abs(n), Abs(d))
    IN  [k |-> "num", n |-> (s * n) \div g, d |-> (s * d) \div g]

Num(n) == Rat(n, 1)

IsNum(x) == Tag(x) = "num"

RatSub(a, b) == Rat(a.n * b.d - b.n * a.d, a.d * b.d)

RatMul(a, b) == Rat(a.n * b.n, a.d * b.d)

\* Python float division: a zero divisor raises ZeroDivisionError
RatDiv(a, b) ==
    IF b.n = 0 THEN Raise("ZeroDivisionError") ELSE Rat(a.n * b.d, a.d * b.n)

RatAbs(a) == Rat(Abs(a.n), a.d)

RatLt(a, b) == a.n * b.d < b.n * a.d

RatLe(a, b) == a.n * b.d <= b.n * a.d

IsZero(a) == a.n = 0

\* a dict is a function on its keys; the tagged values all carry the key k
IsDict(x) == Tag(x) = "dict"

\* dict.get(key)
Get(d, key) == IF key \in DOMAIN d THEN d[key] ELSE None

EmptyDict == [x \in {} |-> None]

----------------------------------------------------------------------------
(* domain/services/balance_sheet_metrics.py: numeric coercion *)

\* float(s) of a stripped string: the numerals the inputs use; anything else
\* is a ValueError
ParseFloat(s) ==
    CASE s = "100" -> Num(100)
      [] s = "110" -> Num(110)
      [] s = "95"  -> Num(95)
      [] s = "0.5" -> Rat(1, 2)
      [] OTHER     -> Raise("ValueError")

safe_float(x) ==
    IF IsNone(x) THEN None
    ELSE IF IsDict(x) THEN None
    ELSE IF IsNum(x) THEN x
    ELSE IF IsStr(x)
         THEN IF x.s \in {"", "nan", "NaN", "none", "None"} THEN None
              ELSE LET v == ParseFloat(x.s) IN IF IsRaise(v) THEN None ELSE v
    ELSE None

----------------------------------------------------------------------------
(* domain/services/periods.py: dates *)

DateTime(day, tod) == [k |-> "datetime", day |-> day, tod |-> tod]

\* the text of a date (day, tod) written in format fmt
DateStr(fmt, day, tod) == [k |-> "datestr", fmt |-> fmt, day |-> day, tod |-> tod]

DateOnlyFormats == {"%Y-%m-%d", "%Y/%m/%d"}

DateTimeFormats == {"%Y-%m-%dT%H:%M:%S", "%Y-%m-%dT%H:%M:%SZ", "%Y-%m-%d %H:%M:%S"}

parse_date(d) ==
    IF IsNone(d) THEN None
    ELSE IF IsDict(d) THEN None
    ELSE IF Tag(d) = "datetime" THEN d
    ELSE IF Tag(d) = "datestr"
         THEN IF d.fmt \in DateOnlyFormats THEN DateTime(d.day, 0)
              ELSE IF d.fmt \in DateTimeFormats THEN DateTime(d.day, d.tod)
              ELSE None
    ELSE None

DateKeys == <<"statement_date", "period_end", "date", "as_of_date", "fs_date">>

RECURSIVE FirstDate(_, _)
FirstDate(period, i) ==
    IF i > Len(DateKeys) THEN None
    ELSE LET d == parse_date(Get(period, DateKeys[i]))
         IN  IF ~IsNone(d) THEN d ELSE FirstDate(period, i + 1)

_extract_period_date(period) == FirstDate(period, 1)

\* seconds since the epoch of a datetime
Stamp(dt) == dt.day * 86400 + dt.tod

\* (a - b).days of two datetimes
DeltaDays(a, b) == (Stamp(a) - Stamp(b)) \div 86400

----------------------------------------------------------------------------
(* domain/services/trend_analysis.py *)

\* mutant: the change is taken relative to old, not to its magnitude
Mut_pct_change_signed(old, new) ==
    IF IsNone(old) \/ IsNone(new) THEN None
    ELSE IF IsZero(old) THEN None
    ELSE RatDiv(RatSub(new, old), old)

pct_change(old, new) ==
    IF IsNone(old) \/ IsNone(new) THEN None
    ELSE IF IsZero(old) THEN None
    ELSE RatDiv(RatSub(new, old), RatAbs(old))

\* the periods that have a parseable date, in the order of the list
Dated(periods) == SelectSeq(periods, LAMBDA p : ~IsNone(_extract_period_date(p)))

Pair(newer, older) == [k |-> "pair", newer |-> newer, older |-> older]

\* the loop over dated[1:]: the first older period whose gap matches, else
\* the first two dated periods
RECURSIVE ScanOlder(_, _, _, _)
ScanOlder(dated, j, approx_days, tolerance_days) ==
    IF j > Len(dated) THEN Pair(dated[1], dated[2])
    ELSE LET delta_days == DeltaDays(_extract_period_date(dated[1]),
                                     _extract_period_date(dated[j]))
         IN  IF Abs(delta_days - approx_days) <= tolerance_days
             THEN Pair(dated[1], dated[j])
             ELSE ScanOlder(dated, j + 1, approx_days, tolerance_days)

\* mutant: the tolerance test is strict
Mut_pick_pair_strict(periods, approx_days, tolerance_days) ==
    IF Len(periods) < 2 THEN None
    ELSE LET dated == Dated(periods)
         IN  IF Len(dated) < 2 THEN None
             ELSE ScanOlder(dated, 2, approx_days, tolerance_days - 1)

_pick_pair_by_gap(periods, approx_days, tolerance_days) ==
    IF Len(periods) < 2 THEN None
    ELSE LET dated == Dated(periods)
         IN  IF Len(dated) < 2 THEN None
             ELSE ScanOlder(dated, 2, approx_days, tolerance_days)

pair_for_qoq(periods) == _pick_pair_by_gap(periods, 90, 45)

pair_for_hoh(periods) == _pick_pair_by_gap(periods, 180, 60)

\* mutant: the year-over-year tolerance is a month
Mut_pair_for_yoy_month(periods) == _pick_pair_by_gap(periods, 365, 30)

pair_for_yoy(periods) == _pick_pair_by_gap(periods, 365, 90)

ShareKeys == <<"shares_out", "shares_outstanding", "basic_shares_out">>

\* the first alias of ShareKeys, from index i on, that the container holds
\* with a value other than None; 0 when there is none
RECURSIVE FirstShareKey(_, _)
FirstShareKey(container, i) ==
    IF i > Len(ShareKeys) THEN 0
    ELSE IF ~IsNone(Get(container, ShareKeys[i])) THEN i
    ELSE FirstShareKey(container, i + 1)

_shares_out(period) ==
    IF IsNone(period) THEN None
    ELSE LET i == FirstShareKey(period, 1)
         IN  IF i # 0 THEN safe_float(period[ShareKeys[i]])
             ELSE LET m    == Get(period, "meta")
                      meta == IF IsNone(m) THEN EmptyDict ELSE m
                      j    == FirstShareKey(meta, 1)
                  IN  IF j # 0 THEN safe_float(meta[ShareKeys[j]]) ELSE None

_pct_change_shares(newer, older) == pct_change(_shares_out(older), _shares_out(newer))

DilutionWindowStats(max_issue, max_buyback) ==
    [k |-> "stats", max_issue |-> max_issue, max_buyback |-> max_buyback]

\* the two nested loops over i < j of dated, from the pair (i, j) on, with the
\* running extrema
RECURSIVE WindowLoop(_, _, _, _, _, _)
WindowLoop(dated, window_days, i, j, max_issue, max_buyback) ==
    IF i > Len(dated) THEN DilutionWindowStats(max_issue, max_buyback)
    ELSE IF j > Len(dated)
         THEN WindowLoop(dated, window_days, i + 1, i + 2, max_issue, max_buyback)
    ELSE LET gap == DeltaDays(_extract_period_date(dated[i]),
                              _extract_period_date(dated[j]))
             chg == _pct_change_shares(dated[i], dated[j])
             skip == gap < 0 \/ gap > window_days \/ IsNone(chg)
             issue == IF skip THEN max_issue
                      ELSE IF IsNone(max_issue) THEN chg
                      ELSE IF RatLt(max_issue, chg) THEN chg ELSE max_issue
             buyback == IF skip THEN max_buyback
                        ELSE IF IsNone(max_buyback) THEN chg
                        ELSE IF RatLt(chg, max_buyback) THEN chg ELSE max_buyback
         IN  WindowLoop(dated, window_days, i, j + 1, issue, buyback)

\* mutant: only adjacent periods are compared
Mut_max_change_adjacent(periods, window_days) ==
    LET dated == Dated(periods)
        Step[i \in 1..Len(dated)] ==
            IF i = 1 THEN DilutionWindowStats(None, None)
            ELSE LET acc == Step[i - 1]
                     one == WindowLoop(<<dated[i - 1], dated[i]>>, window_days, 1, 2,
                                       acc.max_issue, acc.max_buyback)
                 IN  one
    IN  IF Len(dated) = 0 THEN DilutionWindowStats(None, None) ELSE Step[Len(dated)]

_max_change_within_days(periods, window_days) ==
    WindowLoop(Dated(periods), window_days, 1, 2, None, None)

max_dilution_within_1y(periods) == _max_change_within_days(periods, 365).max_issue

max_change_within_3y(periods) == _max_change_within_days(periods, 1095)

----------------------------------------------------------------------------
(* domain/services/fx_utils.py *)

\* str.upper() on the currency codes the inputs use
Upper(s) ==
    CASE s = "usd" -> "USD"
      [] s = "jpy" -> "JPY"
      [] s = "rmb" -> "RMB"
      [] s = "cnh" -> "CNH"
      [] s = "hkd" -> "HKD"
      [] OTHER     -> s

\* a currency code is None or Str(code)
_ccy_alias(ccy) ==
    IF IsNone(ccy) THEN ccy
    ELSE IF ccy.s = "" THEN ccy
    ELSE LET ccy_up == Upper(ccy.s)
         IN  IF ccy_up \in {"RMB", "CNH"} THEN Str("CNY") ELSE Str(ccy_up)

\* a dict built from its items in insertion order: a later write of a key wins
RECURSIVE DictOf(_)
DictOf(items) ==
    IF items = <<>> THEN EmptyDict
    ELSE LET last == items[Len(items)]
             rest == DictOf(SubSeq(items, 1, Len(items) - 1))
         IN  [x \in DOMAIN rest \cup {last[1]} |-> IF x = last[1] THEN last[2] ELSE rest[x]]

\* raw_rates is the sequence raw_rates.items(): <<key, value>> in insertion order
RECURSIVE NormalizedItems(_)
NormalizedItems(items) ==
    IF items = <<>> THEN <<>>
    ELSE LET kv == items[1]
             rest == NormalizedItems(Tail(items))
         IN  IF IsNone(kv[2]) THEN rest
             ELSE <<<<_ccy_alias(Str(kv[1])).s, kv[2]>>>> \o rest

_normalize_rates(raw_rates) == DictOf(NormalizedItems(raw_rates))

\* mutant: the codes are compared as given, not after alias normalization
Mut_convert_raw_codes(amount, from_ccy, to_ccy, fx_rates) ==
    IF IsNone(amount) THEN None
    ELSE IF IsNone(from_ccy) \/ IsNone(to_ccy) THEN None
    ELSE LET from_ccy_norm == _ccy_alias(from_ccy).s
             to_ccy_norm   == _ccy_alias(to_ccy).s
         IN  IF from_ccy = to_ccy THEN amount
             ELSE IF from_ccy_norm \notin DOMAIN fx_rates THEN None
             ELSE LET usd_val == RatMul(amount, fx_rates[from_ccy_norm])
                  IN  IF to_ccy_norm = "USD" THEN usd_val
                      ELSE IF to_ccy_norm \notin DOMAIN fx_rates THEN None
                      ELSE LET usd_to_target == RatDiv(Num(1), fx_rates[to_ccy_norm])
                           IN  IF IsRaise(usd_to_target) THEN usd_to_target
                               ELSE RatMul(usd_val, usd_to_target)

\* mutant: the rate of the source currency is looked up without the test that
\* the table has it
Mut_convert_unchecked_lookup(amount, from_ccy, to_ccy, fx_rates) ==
    IF IsNone(amount) THEN None
    ELSE IF IsNone(from_ccy) \/ IsNone(to_ccy) THEN None
    ELSE LET from_ccy_norm == _ccy_alias(from_ccy).s
             to_ccy_norm   == _ccy_alias(to_ccy).s
         IN  IF from_ccy_norm = to_ccy_norm THEN amount
             ELSE IF from_ccy_norm \notin DOMAIN fx_rates THEN Raise("KeyError")
             ELSE LET usd_val == RatMul(amount, fx_rates[from_ccy_norm])
                  IN  IF to_ccy_norm = "USD" THEN usd_val
                      ELSE IF to_ccy_norm \notin DOMAIN fx_rates THEN None
                      ELSE LET usd_to_target == RatDiv(Num(1), fx_rates[to_ccy_norm])
                           IN  IF IsRaise(usd_to_target) THEN usd_to_target
                               ELSE RatMul(usd_val, usd_to_target)

convert_between(amount, from_ccy, to_ccy, fx_rates) ==
    IF IsNone(amount) THEN None
    ELSE IF IsNone(from_ccy) \/ IsNone(to_ccy) THEN None
    ELSE LET from_ccy_norm == _ccy_alias(from_ccy).s
             to_ccy_norm   == _ccy_alias(to_ccy).s
         IN  IF from_ccy_norm = to_ccy_norm THEN amount
             ELSE IF from_ccy_norm \notin DOMAIN fx_rates THEN None
             ELSE LET usd_val == RatMul(amount, fx_rates[from_ccy_norm])
                  IN  IF to_ccy_norm = "USD" THEN usd_val
                      ELSE IF to_ccy_norm \notin DOMAIN fx_rates THEN None
                      ELSE LET usd_to_target == RatDiv(Num(1), fx_rates[to_ccy_norm])
                           IN  IF IsRaise(usd_to_target) THEN usd_to_target
                               ELSE RatMul(usd_val, usd_to_target)

----------------------------------------------------------------------------
(* domain/services/balance_sheet_metrics.py *)

_extract_val(raw) ==
    IF IsDict(raw) /\ "val" \in DOMAIN raw THEN safe_float(raw["val"])
    ELSE safe_float(raw)

\* "if not period": None or an empty dict
Falsy(period) == IsNone(period) \/ (IsDict(period) /\ DOMAIN period = {})

BalanceContainers == <<"balance", "balance_sheet", "bs">>

\* the loop over the balance-like containers from the i-th on, then the flat
\* field
RECURSIVE BalanceLookup(_, _, _)
BalanceLookup(period, key, i) ==
    IF i > Len(BalanceContainers)
    THEN IF key \in DOMAIN period THEN _extract_val(period[key]) ELSE None
    ELSE LET bal == Get(period, BalanceContainers[i])
         IN  IF IsDict(bal) /\ key \in DOMAIN bal THEN _extract_val(bal[key])
             ELSE BalanceLookup(period, key, i + 1)

\* mutant: the flat field is read first, the containers only without it
Mut_get_balance_flat_first(period, key) ==
    IF Falsy(period) THEN None
    ELSE IF key \in DOMAIN period THEN _extract_val(period[key])
    ELSE BalanceLookup(period, key, 1)

get_balance_value(period, key) ==
    IF Falsy(period) THEN None ELSE BalanceLookup(period, key, 1)

\* mutant: a zero divisor is not looked for
Mut_current_ratio_no_zero_guard(period) ==
    LET ca == get_balance_value(period, "assets_current")
        cl == get_balance_value(period, "liab_current")
    IN  IF IsNone(ca) \/ IsNone(cl) THEN None ELSE RatDiv(ca, cl)

current_ratio(period) ==
    LET ca == get_balance_value(period, "assets_current")
        cl == get_balance_value(period, "liab_current")
    IN  IF IsNone(ca) \/ IsNone(cl) THEN None
        ELSE IF IsZero(cl) THEN None
        ELSE RatDiv(ca, cl)

de_ratio(period) ==
    LET ta == get_balance_value(period, "assets_total")
        tl == get_balance_value(period, "liab_total")
    IN  IF IsNone(ta) \/ IsNone(tl) THEN None
        ELSE LET equity == RatSub(ta, tl)
             IN  IF IsZero(equity) THEN None ELSE RatDiv(tl, equity)

\* mutant: current assets are not replaced by total assets
Mut_ncav_no_fallback(period) ==
    LET ca == get_balance_value(period, "assets_current")
        tl == get_balance_value(period, "liab_total")
    IN  IF IsNone(ca) \/ IsNone(tl) THEN None ELSE RatSub(ca, tl)

ncav_total_native(period) ==
    LET ca0 == get_balance_value(period, "assets_current")
        ca  == IF IsNone(ca0) THEN get_balance_value(period, "assets_total") ELSE ca0
        tl  == get_balance_value(period, "liab_total")
    IN  IF IsNone(ca) \/ IsNone(tl) THEN None ELSE RatSub(ca, tl)

compute_ncav_ps_from_period(period, shares_out) ==
    LET total_ncav == ncav_total_native(period)
    IN  IF IsNone(total_ncav) THEN None
        ELSE IF IsNone(shares_out) THEN None
        ELSE IF IsZero(shares_out) THEN None
        ELSE RatDiv(total_ncav, shares_out)

----------------------------------------------------------------------------
(* tools/ncav_cache.py: the viable-snapshot selector.  A balance-sheet     *)
(* frame is the sequence of its columns; a column is its label (a         *)
(* timestamp, or a text that is no date) with the values, None for a       *)
(* missing row or a NaN, of the rows _pick finds: ca, ta, nca, tl, cl,     *)
(* ncl, wc.                                                                *)

\* pd.to_datetime(x).date() as a day number; None when x is no date
_norm_date(x) == IF Tag(x) = "datetime" THEN Num(x.day) ELSE None

RatAdd(a, b) == Rat(a.n * b.d + b.n * a.d, a.d * b.d)

NoVals == [assets_current |-> None, liab_total |-> None]

_values_for_column(col) ==
    LET cl1 == IF IsNone(col.cl) /\ ~IsNone(col.tl) /\ ~IsNone(col.ncl)
               THEN RatSub(col.tl, col.ncl) ELSE col.cl
        ca1 == IF IsNone(col.ca) /\ ~IsNone(col.wc) /\ ~IsNone(cl1)
               THEN RatAdd(col.wc, cl1) ELSE col.ca
        ca2 == IF IsNone(ca1) /\ ~IsNone(col.ta) /\ ~IsNone(col.nca)
               THEN RatSub(col.ta, col.nca) ELSE ca1
        tl1 == IF IsNone(col.tl) /\ ~IsNone(cl1) /\ ~IsNone(col.ncl)
               THEN RatAdd(cl1, col.ncl) ELSE col.tl
    IN  [assets_current |-> ca2, liab_total |-> tl1]

\* date.isoformat() of a day
IsoDate(day) == [k |-> "iso", day |-> day]

\* the candidates of one frame, in the order of its columns
Candidates(source, df) ==
    [i \in 1..Len(df) |->
        [date_iso |-> IF IsNone(_norm_date(df[i].label)) THEN None
                      ELSE IsoDate(_norm_date(df[i].label).n),
         dt |-> _norm_date(df[i].label),
         vals |-> _values_for_column(df[i]),
         source |-> source]]

\* _key(c) as one number: (dt, prio) in lexicographic order, a missing dt
\* below every date
CandKey(c) ==
    (IF IsNone(c.dt) THEN -1000000 ELSE c.dt.n) * 2
        + (IF c.source = "quarterly" THEN 1 ELSE 0)

\* list.sort(key, reverse=True): descending and stable
RECURSIVE SortCandsDesc(_)
SortCandsDesc(seq) ==
    IF seq = <<>> THEN <<>>
    ELSE LET sorted == SortCandsDesc(SubSeq(seq, 1, Len(seq) - 1))
             x == seq[Len(seq)]
             before == SelectSeq(sorted, LAMBDA y : CandKey(y) >= CandKey(x))
             after  == SelectSeq(sorted, LAMBDA y : CandKey(y) < CandKey(x))
         IN  before \o <<x>> \o after

_collect_candidates(bs_a, bs_q) ==
    SortCandsDesc(Candidates("annual", bs_a) \o Candidates("quarterly", bs_q))

Selection(date_iso, vals, source) ==
    [k |-> "selection", date_iso |-> date_iso, vals |-> vals, source |-> source]

\* the loop over the sorted candidates from the i-th on; now is today's day
RECURSIVE WalkCandidates(_, _, _, _)
WalkCandidates(cands, i, cutoff, shares_out) ==
    IF i > Len(cands) THEN Selection(None, NoVals, None)
    ELSE LET c == cands[i]
         IN  IF IsNone(c.dt) \/ c.dt.n < cutoff
             THEN WalkCandidates(cands, i + 1, cutoff, shares_out)
             ELSE IF IsNone(c.vals.assets_current) \/ IsNone(c.vals.liab_total)
             THEN WalkCandidates(cands, i + 1, cutoff, shares_out)
             ELSE IF IsRaise(RatDiv(RatSub(c.vals.assets_current, c.vals.liab_total),
                                    shares_out))
             THEN WalkCandidates(cands, i + 1, cutoff, shares_out)
             ELSE Selection(c.date_iso, c.vals, Str(c.source))

\* mutant: a column older than the cutoff is not skipped
Mut_select_no_cutoff(bs_a, bs_q, shares_out, max_age_days, now) ==
    IF IsNone(shares_out) THEN Selection(None, NoVals, None)
    ELSE IF RatLe(shares_out, Num(0)) THEN Selection(None, NoVals, None)
    ELSE WalkCandidates(_collect_candidates(bs_a, bs_q), 1, -1000000, shares_out)

_select_latest_viable_ncavps(bs_a, bs_q, shares_out, max_age_days, now) ==
    IF IsNone(shares_out) THEN Selection(None, NoVals, None)
    ELSE IF RatLe(shares_out, Num(0)) THEN Selection(None, NoVals, None)
    ELSE LET cands == _collect_candidates(bs_a, bs_q)
         IN  IF cands = <<>> THEN Selection(None, NoVals, None)
             ELSE WalkCandidates(cands, 1, now - max_age_days, shares_out)

----------------------------------------------------------------------------
(* Bounds and the input sets of the specifications *)

\* the longest timeline (and the longest statement bucket)
MaxLen == 3

\* day numbers count from today = day 0; a statement of age a is dated day -a
TrendAges == {0, 95, 275, 370, 400, 1100}

\* the date field of a period of age a: the adapters write the date under
\* different keys and in different formats
DatePart(a) ==
    CASE a = 95   -> [period_end |-> DateStr("%Y/%m/%d", -a, 0)]
      [] a = 275  -> [statement_date |-> Str("n/a"),
                      date |-> DateStr("%Y-%m-%dT%H:%M:%S", -a, 0)]
      [] a = 1100 -> [statement_date |-> DateTime(-a, 0)]
      [] OTHER    -> [statement_date |-> DateStr("%Y-%m-%d", -a, 0)]

\* where and how a period of age a carries its share count: flat, under an
\* alias as text, in the meta block, and one irregular shape per age
ShareParts(a) ==
    { [shares_out |-> Num(100)],
      [shares_out |-> None, shares_outstanding |-> Str("110")],
      [meta |-> [basic_shares_out |-> Num(95)]] }
    \cup (CASE a \in {0, 400}   -> {EmptyDict}
            [] a \in {95, 370}  -> {[shares_out |-> Num(0)]}
            [] OTHER            -> {[shares_out |-> Str("n/a"),
                                     meta |-> [shares_out |-> Num(110)]]})

\* a period whose date no format parses
UndatedPeriod == [statement_date |-> DateStr("%d.%m.%Y", 0, 0), shares_out |-> Num(100)]

TrendPeriods ==
    UNION {{DatePart(a) @@ sh : sh \in ShareParts(a)} : a \in TrendAges} \cup {UndatedPeriod}

\* newest-first: the dated periods of the list do not get newer
NewestFirst(periods) ==
    LET dated == Dated(periods)
    IN  \A i \in 1..Len(dated) - 1 :
            Stamp(_extract_period_date(dated[i])) >= Stamp(_extract_period_date(dated[i + 1]))

----------------------------------------------------------------------------
(* Specification of the trend and dilution analyzer: one call of one of its *)
(* public functions on the timeline the adapter has delivered              *)

InitTrend ==
    /\ pc = "idle"
    /\ input = [periods |-> <<>>, window_days |-> 0]
    /\ output = None

\* the adapter delivers the next period of the newest-first timeline
LoadPeriod ==
    /\ pc = "idle"
    /\ Len(input.periods) < MaxLen
    /\ \E p \in TrendPeriods :
          /\ NewestFirst(Append(input.periods, p))
          /\ input' = [input EXCEPT !.periods = Append(@, p)]
    /\ UNCHANGED <<pc, output>>

Call_pair_for_qoq ==
    /\ pc = "idle"
    /\ pc' = "pair_for_qoq"
    /\ output' = pair_for_qoq(input.periods)
    /\ UNCHANGED input

Call_pair_for_hoh ==
    /\ pc = "idle"
    /\ pc' = "pair_for_hoh"
    /\ output' = pair_for_hoh(input.periods)
    /\ UNCHANGED input

Call_pair_for_yoy ==
    /\ pc = "idle"
    /\ pc' = "pair_for_yoy"
    /\ output' = pair_for_yoy(input.periods)
    /\ UNCHANGED input

Call_max_dilution_within_1y ==
    /\ pc = "idle"
    /\ pc' = "max_dilution_within_1y"
    /\ output' = max_dilution_within_1y(input.periods)
    /\ UNCHANGED input

\* the search itself, with either of the windows its two callers pass
Call_max_change_within_days ==
    /\ pc = "idle"
    /\ pc' = "_max_change_within_days"
    /\ \E w \in {365, 1095} :
          /\ input' = [input EXCEPT !.window_days = w]
          /\ output' = _max_change_within_days(input.periods, w)

Call_max_change_within_3y ==
    /\ pc = "idle"
    /\ pc' = "max_change_within_3y"
    /\ output' = max_change_within_3y(input.periods)
    /\ UNCHANGED input

NextTrend ==
    \/ LoadPeriod
    \/ Call_pair_for_qoq
    \/ Call_pair_for_hoh
    \/ Call_pair_for_yoy
    \/ Call_max_dilution_within_1y
    \/ Call_max_change_within_3y
    \/ Call_max_change_within_days

SpecTrend == InitTrend /\ [][NextTrend]_vars

----------------------------------------------------------------------------
(* Properties of the trend and dilution analyzer *)

Min(S) == CHOOSE x \in S : \A y \in S : x <= y

\* the positions of a list that hold a period with a parseable date
DatedIdx(periods) == {i \in 1..Len(periods) : ~IsNone(_extract_period_date(periods[i]))}

\* the day-gap from the period at position i back to the one at position j
GapDays(periods, i, j) ==
    DeltaDays(_extract_period_date(periods[i]), _extract_period_date(periods[j]))

\* what the pairing is claimed to return for a nominal gap and a tolerance
ExpectedPair(periods, nominal, tolerance) ==
    LET D == DatedIdx(periods)
    IN  IF Cardinality(D) < 2 THEN None
        ELSE LET newest == Min(D)
                 older  == D \ {newest}
                 inGap  == {j \in older :
                              Abs(GapDays(periods, newest, j) - nominal) <= tolerance}
             IN  Pair(periods[newest],
                      periods[IF inGap # {} THEN Min(inGap) ELSE Min(older)])

\* C1: for each horizon (QoQ 90+-45, HoH 180+-60, YoY 365+-90) the pairing of a
\* newest-first timeline returns the newest dated period with the first older
\* dated period, in scan order, whose day-gap is within the tolerance of the
\* nominal gap, else with the second dated period; it returns None exactly
\* when fewer than two periods have a parseable date.
C1_PairByGap ==
    /\ pc = "pair_for_qoq" => output = ExpectedPair(input.periods, 90, 45)
    /\ pc = "pair_for_hoh" => output = ExpectedPair(input.periods, 180, 60)
    /\ pc = "pair_for_yoy" => output = ExpectedPair(input.periods, 365, 90)
    /\ pc \in {"pair_for_qoq", "pair_for_hoh", "pair_for_yoy"} =>
          /\ IsNone(output) <=> Cardinality(DatedIdx(input.periods)) < 2
          /\ ~IsNone(output) =>
                \A i \in DatedIdx(input.periods) :
                    Stamp(_extract_period_date(input.periods[i]))
                        <= Stamp(_extract_period_date(output.newer))

\* a half-year pairing that passed over the second period for the third
C1_Witness ==
    /\ pc = "pair_for_hoh"
    /\ Len(input.periods) = 3
    /\ Cardinality(DatedIdx(input.periods)) = 3
    /\ output = Pair(input.periods[1], input.periods[3])

\* the timeline dated [today, today - 95d, today - 400d]
IsC2Timeline(periods) ==
    /\ Len(periods) = 3
    /\ _extract_period_date(periods[1]) = DateTime(0, 0)
    /\ _extract_period_date(periods[2]) = DateTime(-95, 0)
    /\ _extract_period_date(periods[3]) = DateTime(-400, 0)

\* C2 as stated: on the timeline [today, -95d, -400d] the QoQ pair is
\* (today, -95d) and the YoY pairing falls back to (today, -95d).
C2_Original ==
    IsC2Timeline(input.periods) =>
        /\ pc = "pair_for_qoq" => output = Pair(input.periods[1], input.periods[2])
        /\ pc = "pair_for_yoy" => output = Pair(input.periods[1], input.periods[2])

\* C2 amended: on the timeline [today, -95d, -400d] the QoQ pair is
\* (today, -95d) and the YoY pair is (today, -400d), the 400-day gap being
\* within 365+-90.
C2_Amended ==
    IsC2Timeline(input.periods) =>
        /\ pc = "pair_for_qoq" => output = Pair(input.periods[1], input.periods[2])
        /\ pc = "pair_for_yoy" => output = Pair(input.periods[1], input.periods[3])

C2_Witness == IsC2Timeline(input.periods) /\ pc = "pair_for_yoy"

\* the share-count changes pct_change(older, newer) of all the pairs of dated
\* periods, adjacent or not, whose day-gap lies in [0, window], where defined
WindowChanges(periods, window) ==
    LET dated == Dated(periods)
        pairs == {x \in (1..Len(dated)) \X (1..Len(dated)) :
                    /\ x[1] < x[2]
                    /\ GapDays(dated, x[1], x[2]) \in 0..window}
    IN  {pct_change(_shares_out(dated[x[2]]), _shares_out(dated[x[1]])) : x \in pairs}
            \ {None}

RatMax(S) == CHOOSE x \in S : \A y \in S : RatLe(y, x)

RatMin(S) == CHOOSE x \in S : \A y \in S : RatLe(x, y)

\* the chronological share series [100, 110, 95] at day offsets [0, 30, 400],
\* newest first
IsC3Example(periods) ==
    /\ Len(periods) = 3
    /\ \A i \in 1..3 : ~IsNone(_extract_period_date(periods[i]))
    /\ GapDays(periods, 1, 3) = 400
    /\ GapDays(periods, 2, 3) = 30
    /\ _shares_out(periods[3]) = Num(100)
    /\ _shares_out(periods[2]) = Num(110)
    /\ _shares_out(periods[1]) = Num(95)

\* C3: for a window of 365 or 1095 days the search returns as max_issue the
\* maximum and as max_buyback the minimum of the share-count changes over all
\* pairs of periods, adjacent or not, whose day-gap lies in [0, window]; a
\* wider pair never contributes (the series [100, 110, 95] at offsets
\* [0, 30, 400] gives max_issue = 0.10 for 365 days); both are None when no
\* pair has a defined change.
C3_WindowExtrema ==
    pc = "_max_change_within_days" =>
        LET S == WindowChanges(input.periods, input.window_days)
        IN  /\ S = {} => IsNone(output.max_issue) /\ IsNone(output.max_buyback)
            /\ S # {} => /\ output.max_issue = RatMax(S)
                         /\ output.max_buyback = RatMin(S)
            /\ IsC3Example(input.periods) /\ input.window_days = 365 =>
                  output.max_issue = Rat(1, 10)

C3_Witness ==
    /\ pc = "_max_change_within_days"
    /\ input.window_days = 365
    /\ IsC3Example(input.periods)
    /\ output.max_issue = Rat(1, 10)

\* C4: in every DilutionWindowStats of the search, max_issue, when present, is
\* positive and max_buyback, when present, is negative.
C4_SignsOfExtrema ==
    pc = "_max_change_within_days" =>
        /\ ~IsNone(output.max_issue) => RatLt(Num(0), output.max_issue)
        /\ ~IsNone(output.max_buyback) => RatLt(output.max_buyback, Num(0))

----------------------------------------------------------------------------
(* Specification of the currency utilities: one call of convert_between or *)
(* of _normalize_rates on a rate table                                     *)

FxAmounts == {None, Num(100), Num(0), Rat(-5, 2)}

FxCodes == {None, Str(""), Str("USD"), Str("usd"), Str("JPY"), Str("HKD"),
            Str("CNY"), Str("rmb"), Str("CNH")}

\* rate tables as their items in insertion order (USD value of one unit)
FxTables ==
    { <<>>,
      <<<<"USD", Num(1)>>, <<"JPY", Rat(1, 100)>>, <<"HKD", Rat(1, 8)>>>>,
      <<<<"JPY", Rat(1, 100)>>, <<"CNY", Rat(1, 7)>>>>,
      <<<<"RMB", Rat(1, 7)>>>>,
      <<<<"jpy", Rat(1, 100)>>, <<"HKD", Rat(1, 8)>>>>,
      <<<<"JPY", Rat(1, 100)>>, <<"HKD", Num(0)>>>>,
      <<<<"CNY", Rat(1, 7)>>, <<"CNH", Rat(1, 5)>>, <<"USD", Num(1)>>>>,
      <<<<"HKD", None>>, <<"cnh", Rat(1, 5)>>, <<"CNY", Rat(1, 7)>>>> }

InitFx ==
    /\ pc = "idle"
    /\ input \in [amount : FxAmounts, from_ccy : FxCodes, to_ccy : FxCodes,
                  fx_rates : FxTables]
    /\ output = None

\* fx_rates is a Dict[str, float]: a table that still holds None is not
\* passed to the conversion
Call_convert_between ==
    /\ pc = "idle"
    /\ \A i \in 1..Len(input.fx_rates) : ~IsNone(input.fx_rates[i][2])
    /\ pc' = "convert_between"
    /\ output' = convert_between(input.amount, input.from_ccy, input.to_ccy,
                                 DictOf(input.fx_rates))
    /\ UNCHANGED input

Call_normalize_rates ==
    /\ pc = "idle"
    /\ pc' = "_normalize_rates"
    /\ output' = _normalize_rates(input.fx_rates)
    /\ UNCHANGED input

NextFx ==
    \/ Call_convert_between
    \/ Call_normalize_rates

SpecFx == InitFx /\ [][NextFx]_vars

----------------------------------------------------------------------------
(* Properties of the currency utilities *)

\* the code a currency code stands for: upper case, RMB and CNH read as CNY
CodeClass(code) ==
    CASE code \in {"USD", "usd"}        -> "USD"
      [] code \in {"JPY", "jpy"}        -> "JPY"
      [] code \in {"RMB", "rmb", "CNH", "cnh", "CNY"} -> "CNY"
      [] OTHER                          -> code

\* C5: convert returns None if amount, from or to is None; the amount itself
\* if the two codes are equal after alias normalization, whatever the table;
\* otherwise None if the table has no entry for (normalized) from;
\* amount * table[from] if to is USD; otherwise None if the table has no entry
\* for (normalized) to; otherwise amount * table[from] / table[to], wherever
\* that quotient is defined.
C5_ConvertCases ==
    pc = "convert_between" =>
        LET amount == input.amount
            table  == DictOf(input.fx_rates)
        IN  IF IsNone(amount) \/ IsNone(input.from_ccy) \/ IsNone(input.to_ccy)
            THEN IsNone(output)
            ELSE LET from == CodeClass(input.from_ccy.s)
                     to   == CodeClass(input.to_ccy.s)
                 IN  IF from = to THEN output = amount
                     ELSE IF from \notin DOMAIN table THEN IsNone(output)
                     ELSE IF to = "USD"
                          THEN output = Rat(amount.n * table[from].n, amount.d * table[from].d)
                     ELSE IF to \notin DOMAIN table THEN IsNone(output)
                     ELSE table[to].n # 0 =>
                            output = Rat(amount.n * table[from].n * table[to].d,
                                         amount.d * table[from].d * table[to].n)

\* a cross conversion through USD: 100 JPY at 1/100 into HKD at 1/8 is 8 HKD
C5_Witness ==
    /\ pc = "convert_between"
    /\ input.amount = Num(100)
    /\ input.from_ccy = Str("JPY")
    /\ input.to_ccy = Str("HKD")
    /\ "HKD" \in DOMAIN DictOf(input.fx_rates)
    /\ output = Num(8)

\* C6: convert never raises; for every amount, codes and rate table, also one
\* whose rate of the target currency is 0, it returns a number or None.
C6_NeverRaises ==
    pc = "convert_between" => ~IsRaise(output)

\* C7: convert finds a rate whenever the table has a key that equals the
\* requested currency after upper-casing and alias normalization
\* (convert(x, 'CNY', 'USD', {'RMB': r}) = x * r, and so for {'jpy': r} and
\* JPY); only a currency with no such key is unknown.
C7_NormalizedLookup ==
    (/\ pc = "convert_between"
     /\ ~IsNone(input.amount) /\ ~IsNone(input.from_ccy) /\ ~IsNone(input.to_ccy)
     /\ CodeClass(input.to_ccy.s) = "USD"
     /\ CodeClass(input.from_ccy.s) # "USD")
    => LET table == DictOf(input.fx_rates)
           keys  == {key \in DOMAIN table : CodeClass(key) = CodeClass(input.from_ccy.s)}
       IN  /\ keys = {} <=> IsNone(output)
           /\ \A key \in keys :
                 Cardinality(keys) = 1 =>
                    output = Rat(input.amount.n * table[key].n, input.amount.d * table[key].d)

----------------------------------------------------------------------------
(* Specification of the balance-sheet metrics: one read or one metric of a *)
(* period whose fields lie flat, in a balance-like container, or in both   *)

BalanceFields == {"assets_current", "liab_current", "assets_total", "liab_total"}

\* the flat values a field may have in the input periods (None: key absent)
FlatValues(field) ==
    CASE field = "assets_current" -> {None, Num(500)}
      [] field = "liab_current"   -> {None, Num(0), Num(250)}
      [] field = "assets_total"   -> {None, Num(300), Num(500)}
      [] field = "liab_total"     -> {None, Num(300)}

\* the containers that may hold a field, each as a dict container -> value
NestedValues(field) ==
    CASE field = "assets_current" ->
            { EmptyDict,
              [balance |-> Num(800)],
              [bs |-> [val |-> Str("110"), unit |-> Str("CNY")]],
              [balance_sheet |-> None],
              [balance |-> Num(800), bs |-> Num(100)] }
      [] field = "liab_current"   -> {EmptyDict, [balance |-> [val |-> Num(100)]]}
      [] field = "assets_total"   -> {EmptyDict, [bs |-> Num(95)]}
      [] field = "liab_total"     ->
            { EmptyDict,
              [balance_sheet |-> Num(100)],
              [balance_sheet |-> Str("n/a"), bs |-> Num(95)] }

\* the period that holds each field flat as flat[field] says and nested as
\* nested[field] says
BalancePeriod(flat, nested) ==
    LET flatPart == [f \in {g \in BalanceFields : ~IsNone(flat[g])} |-> flat[f]]
        used == {c \in {"balance", "balance_sheet", "bs"} :
                    \E f \in BalanceFields : c \in DOMAIN nested[f]}
        containers == [c \in used |->
                          [f \in {g \in BalanceFields : c \in DOMAIN nested[g]} |->
                              nested[f][c]]]
    IN  flatPart @@ containers

InitBalance ==
    /\ pc = "idle"
    /\ \E fca \in FlatValues("assets_current"), fcl \in FlatValues("liab_current"),
          fta \in FlatValues("assets_total"), ftl \in FlatValues("liab_total"),
          nca \in NestedValues("assets_current"), ncl \in NestedValues("liab_current"),
          nta \in NestedValues("assets_total"), ntl \in NestedValues("liab_total") :
          input = [period |-> BalancePeriod(
                                 [assets_current |-> fca, liab_current |-> fcl,
                                  assets_total |-> fta, liab_total |-> ftl],
                                 [assets_current |-> nca, liab_current |-> ncl,
                                  assets_total |-> nta, liab_total |-> ntl]),
                   key |-> ""]
    /\ output = None

Call_get_balance_value ==
    /\ pc = "idle"
    /\ pc' = "get_balance_value"
    /\ \E key \in BalanceFields :
          /\ input' = [input EXCEPT !.key = key]
          /\ output' = get_balance_value(input.period, key)

Call_current_ratio ==
    /\ pc = "idle"
    /\ pc' = "current_ratio"
    /\ output' = current_ratio(input.period)
    /\ UNCHANGED input

Call_de_ratio ==
    /\ pc = "idle"
    /\ pc' = "de_ratio"
    /\ output' = de_ratio(input.period)
    /\ UNCHANGED input

Call_ncav_total_native ==
    /\ pc = "idle"
    /\ pc' = "ncav_total_native"
    /\ output' = ncav_total_native(input.period)
    /\ UNCHANGED input

NextBalance ==
    \/ Call_get_balance_value
    \/ Call_current_ratio
    \/ Call_de_ratio
    \/ Call_ncav_total_native

SpecBalance == InitBalance /\ [][NextBalance]_vars

----------------------------------------------------------------------------
(* Properties of the balance-sheet metrics *)

\* the number a stored field value stands for: a {val: ...} record by its val
ValueOf(raw) ==
    IF IsDict(raw) THEN (IF "val" \in DOMAIN raw THEN safe_float(raw["val"]) ELSE None)
    ELSE safe_float(raw)

\* the balance-like containers of a period that hold the field
Holders(period, key) ==
    {c \in {"balance", "balance_sheet", "bs"} :
        c \in DOMAIN period /\ IsDict(period[c]) /\ key \in DOMAIN period[c]}

\* the nested value of a field: the first container that holds it wins
NestedRead(period, key) ==
    LET H == Holders(period, key)
    IN  IF "balance" \in H THEN ValueOf(period["balance"][key])
        ELSE IF "balance_sheet" \in H THEN ValueOf(period["balance_sheet"][key])
        ELSE ValueOf(period["bs"][key])

\* a read that takes the flat field first and a container only without it
FlatFirstRead(period, key) ==
    IF key \in DOMAIN period THEN ValueOf(period[key])
    ELSE IF Holders(period, key) # {} THEN NestedRead(period, key)
    ELSE None

\* a read that takes the containers first and the flat field only when no
\* container holds the field
NestedFirstRead(period, key) ==
    IF Holders(period, key) # {} THEN NestedRead(period, key)
    ELSE IF key \in DOMAIN period THEN ValueOf(period[key])
    ELSE None

\* what the metrics return when every field is read by Read
MetricsUse(Read(_, _)) ==
    LET p  == input.period
        ca == Read(p, "assets_current")
        cl == Read(p, "liab_current")
        ta == Read(p, "assets_total")
        tl == Read(p, "liab_total")
    IN  /\ pc = "get_balance_value" => output = Read(p, input.key)
        /\ pc = "current_ratio" /\ ~IsNone(ca) /\ ~IsNone(cl) /\ ~IsZero(cl) =>
              output = Rat(ca.n * cl.d, ca.d * cl.n)
        /\ pc = "ncav_total_native" /\ ~IsNone(ca) /\ ~IsNone(tl) =>
              output = RatSub(ca, tl)
        /\ pc = "de_ratio" /\ ~IsNone(ta) /\ ~IsNone(tl) /\ ta # tl =>
              output = Rat(tl.n * RatSub(ta, tl).d, tl.d * RatSub(ta, tl).n)

\* C8 as stated: every balance-field read takes the flat field of the period
\* first and the containers balance, balance_sheet, bs only when the flat
\* field is not present; with a field both flat and nested, every metric uses
\* the flat value.
C8_Original == MetricsUse(FlatFirstRead)

\* C8 amended: every balance-field read takes the first of the containers
\* balance, balance_sheet, bs that holds the field, and the flat field of the
\* period only when no container holds it; with a field both flat and nested,
\* every metric uses the nested value.
C8_Amended == MetricsUse(NestedFirstRead)

\* current assets flat (500) and nested (800), total liabilities flat (300):
\* the NCAV is 800 - 300
C8_Witness ==
    /\ pc = "ncav_total_native"
    /\ "assets_current" \in DOMAIN input.period
    /\ input.period["assets_current"] = Num(500)
    /\ Holders(input.period, "assets_current") = {"balance", "bs"}
    /\ Holders(input.period, "liab_total") = {}
    /\ output = Num(500)

----------------------------------------------------------------------------
(* Specification of the viable-snapshot selector: the annual and the       *)
(* quarterly frame are filled column by column, then the selector is       *)
(* called once                                                             *)

\* the most columns the two frames hold together
MaxColumns == 3

Column(label, ca, ta, nca, tl, cl, ncl, wc) ==
    [label |-> label, ca |-> ca, ta |-> ta, nca |-> nca, tl |-> tl, cl |-> cl,
     ncl |-> ncl, wc |-> wc]

\* columns of ages 100, 400, 730 (the cutoff day itself) and 731 days, and one
\* whose label is no date; complete, incomplete, and complete by derivation
SelectorColumns ==
    { Column(DateTime(-100, 0), Num(500), None, None, Num(300), None, None, None),
      Column(DateTime(-100, 0), None, Num(800), None, Num(300), None, None, None),
      Column(DateTime(-100, 0), None, None, None, Num(250), Num(100), None, Num(200)),
      Column(DateTime(-400, 0), Num(500), None, None, None, Num(100), Num(95), None),
      Column(DateTime(-400, 0), None, Num(500), Num(300), Num(300), None, Num(250), None),
      Column(DateTime(-730, 0), Num(800), None, None, Num(100), None, None, None),
      Column(DateTime(-731, 0), Num(900), None, None, Num(100), None, None, None),
      Column(Str("TTM"), Num(900), None, None, Num(100), None, None, None) }

\* a frame has one column per date
NewLabel(df, col) == \A i \in 1..Len(df) : df[i].label # col.label

InitSelector ==
    /\ pc = "idle"
    /\ input = [bs_a |-> <<>>, bs_q |-> <<>>, shares_out |-> None,
                max_age_days |-> 730, now |-> 0]
    /\ output = None

LoadAnnualColumn ==
    /\ pc = "idle"
    /\ Len(input.bs_a) + Len(input.bs_q) < MaxColumns
    /\ \E col \in SelectorColumns :
          /\ NewLabel(input.bs_a, col)
          /\ input' = [input EXCEPT !.bs_a = Append(@, col)]
    /\ UNCHANGED <<pc, output>>

LoadQuarterlyColumn ==
    /\ pc = "idle"
    /\ Len(input.bs_a) + Len(input.bs_q) < MaxColumns
    /\ \E col \in SelectorColumns :
          /\ NewLabel(input.bs_q, col)
          /\ input' = [input EXCEPT !.bs_q = Append(@, col)]
    /\ UNCHANGED <<pc, output>>

Call_select_latest_viable_ncavps ==
    /\ pc = "idle"
    /\ pc' = "_select_latest_viable_ncavps"
    /\ \E shares_out \in {None, Num(0), Num(-100), Num(100)},
          max_age_days \in {400, 730} :
          /\ input' = [input EXCEPT !.shares_out = shares_out,
                                    !.max_age_days = max_age_days]
          /\ output' = _select_latest_viable_ncavps(input.bs_a, input.bs_q, shares_out,
                                                    max_age_days, input.now)

NextSelector ==
    \/ LoadAnnualColumn
    \/ LoadQuarterlyColumn
    \/ Call_select_latest_viable_ncavps

SpecSelector == InitSelector /\ [][NextSelector]_vars

----------------------------------------------------------------------------
(* Properties of the viable-snapshot selector *)

\* the columns of both frames as candidates <<source, position>>
AllCandidates ==
    {<<"annual", i>> : i \in 1..Len(input.bs_a)}
        \cup {<<"quarterly", i>> : i \in 1..Len(input.bs_q)}

ColumnOf(c) == IF c[1] = "annual" THEN input.bs_a[c[2]] ELSE input.bs_q[c[2]]

\* the day of a candidate's column; only for a dated column
DayOf(c) == ColumnOf(c).label.day

IsDatedCand(c) == Tag(ColumnOf(c).label) = "datetime"

\* within the window: dated, and not older than now - max_age_days
InWindow(c) == IsDatedCand(c) /\ DayOf(c) >= input.now - input.max_age_days

\* CA and TL both resolve, directly or by the derivations
Resolves(c) ==
    /\ ~IsNone(_values_for_column(ColumnOf(c)).assets_current)
    /\ ~IsNone(_values_for_column(ColumnOf(c)).liab_total)

\* c comes before d: newer date, or quarterly before annual on the same date
Before(c, d) ==
    \/ DayOf(c) > DayOf(d)
    \/ DayOf(c) = DayOf(d) /\ c[1] = "quarterly" /\ d[1] = "annual"

\* C10: with a positive share count the selector returns the first candidate,
\* by date descending and quarterly before annual on equal dates, that is not
\* older than now - max_age_days and whose CA and TL both resolve: nothing
\* older than the cutoff is selected, no newer viable candidate is passed
\* over; the selection is None when the share count is None or <= 0 or no
\* candidate qualifies.
C10_LatestViable ==
    pc = "_select_latest_viable_ncavps" =>
        LET viable == {c \in AllCandidates : InWindow(c) /\ Resolves(c)}
            positive == ~IsNone(input.shares_out) /\ RatLt(Num(0), input.shares_out)
        IN  IF ~positive \/ viable = {}
            THEN output = Selection(None, NoVals, None)
            ELSE \E c \in viable :
                    /\ \A d \in viable : ~Before(d, c)
                    /\ output = Selection(IsoDate(DayOf(c)),
                                          _values_for_column(ColumnOf(c)), Str(c[1]))
                    /\ output.date_iso.day >= input.now - input.max_age_days
                    /\ \A d \in AllCandidates :
                          IsDatedCand(d) /\ DayOf(d) > output.date_iso.day
                              => ~Resolves(d)

\* the column dated on the cutoff day is selected from the annual frame, after
\* a fresher incomplete quarterly column and beside an older complete one
C10_Witness ==
    /\ pc = "_select_latest_viable_ncavps"
    /\ output.source = Str("annual")
    /\ output.date_iso = IsoDate(-730)
    /\ \E i \in 1..Len(input.bs_q) :
          input.bs_q[i].label = DateTime(-100, 0) /\ ~Resolves(<<"quarterly", i>>)
    /\ \E i \in 1..Len(input.bs_a) : input.bs_a[i].label = DateTime(-731, 0)

----------------------------------------------------------------------------
(* domain/services/periods.py: the statement buckets and the merged        *)
(* timeline.  A Python list stored in a record is List(items); the lists   *)
(* the functions pass around are sequences.                                *)

List(items) == [k |-> "list", items |-> items]

IsList(x) == Tag(x) = "list"

\* "not x" of a value
Not(x) ==
    \/ IsNone(x)
    \/ IsDict(x) /\ DOMAIN x = {}
    \/ IsList(x) /\ x.items = <<>>
    \/ IsStr(x) /\ x.s = ""
    \/ IsNum(x) /\ x.n = 0

\* "a or b"
Or(a, b) == IF Not(a) THEN b ELSE a

\* list.sort(key = date, reverse = True) of dated periods: descending, stable
RECURSIVE SortDatedDesc(_)
SortDatedDesc(seq) ==
    IF seq = <<>> THEN <<>>
    ELSE LET sorted == SortDatedDesc(SubSeq(seq, 1, Len(seq) - 1))
             x == seq[Len(seq)]
             key(p) == Stamp(_extract_period_date(p))
             before == SelectSeq(sorted, LAMBDA y : key(y) >= key(x))
             after  == SelectSeq(sorted, LAMBDA y : key(y) < key(x))
         IN  before \o <<x>> \o after

_sort_periods_desc(periods) == SortDatedDesc(Dated(periods))

_get_period_list(core, bucket) ==
    LET fin  == Or(Get(core, "financials"), EmptyDict)
        node == Get(fin, bucket)
        periods == IF IsDict(node) THEN Or(Get(node, "periods"), List(<<>>))
                   ELSE IF IsList(node) THEN node
                   ELSE Or(Get(core, bucket), List(<<>>))
    IN  IF ~IsList(periods) THEN <<>> ELSE periods.items

quarters_sorted(core) == _sort_periods_desc(_get_period_list(core, "quarterly"))

annuals_sorted(core) == _sort_periods_desc(_get_period_list(core, "annual"))

CurrencyKeys == <<"currency", "ccy", "report_ccy", "reporting_currency">>

\* the first of CurrencyKeys, from index i on, with a truthy value in d
RECURSIVE FirstCurrency(_, _)
FirstCurrency(d, i) ==
    IF i > Len(CurrencyKeys) THEN None
    ELSE LET val == Get(d, CurrencyKeys[i])
         IN  IF ~Not(val) THEN Str(Upper(val.s)) ELSE FirstCurrency(d, i + 1)

detect_period_currency(period) ==
    IF Not(period) THEN None
    ELSE LET top == FirstCurrency(period, 1)
         IN  IF ~IsNone(top) THEN top
             ELSE FirstCurrency(Or(Get(period, "balance"), EmptyDict), 1)

\* sig(p): the day of the period's date, as strftime("%Y-%m-%d") writes it
sig(p) ==
    LET dt == _extract_period_date(p) IN IF IsNone(dt) THEN None ELSE Num(dt.day)

\* mutant: every period of the two sorted buckets is kept
Mut_FirstPerSig_keep_all(seq, seen) == seq

\* buckets.values(): the first period of every signature, in insertion order
RECURSIVE FirstPerSig(_, _)
FirstPerSig(seq, seen) ==
    IF seq = <<>> THEN <<>>
    ELSE LET s == sig(seq[1])
         IN  IF IsNone(s) \/ s \in seen THEN FirstPerSig(Tail(seq), seen)
             ELSE <<seq[1]>> \o FirstPerSig(Tail(seq), seen \cup {s})

\* mutant: the annual bucket is merged before the quarterly one
Mut_all_periods_annual_first(core) ==
    _sort_periods_desc(FirstPerSig(annuals_sorted(core) \o quarters_sorted(core), {}))

all_periods_sorted(core) ==
    _sort_periods_desc(FirstPerSig(quarters_sorted(core) \o annuals_sorted(core), {}))

----------------------------------------------------------------------------
(* domain/services/balance_sheet_metrics.py: currencies *)

listing_ccy_for_ticker(core) ==
    LET meta == IF "meta" \in DOMAIN core THEN core["meta"] ELSE EmptyDict
        ccy  == Or(Get(meta, "currency"), Get(meta, "listing_currency"))
    IN  IF ~Not(ccy) THEN Str(Upper(ccy.s))
        ELSE LET periods == all_periods_sorted(core)
             IN  IF periods = <<>> THEN None
                 ELSE LET det == detect_period_currency(periods[1])
                      IN  IF ~Not(det) THEN Str(Upper(det.s)) ELSE None

----------------------------------------------------------------------------
(* domain/services/data_quality.py *)

\* mutant: a period is stale from the limit on
Mut_assess_staleness_at_limit(latest_period, now_dt, stale_after_days) ==
    IF IsNone(latest_period) THEN [is_outdated |-> TRUE, age_days |-> None]
    ELSE LET d == _extract_period_date(latest_period)
         IN  IF IsNone(d) THEN [is_outdated |-> TRUE, age_days |-> None]
             ELSE LET age_days == DeltaDays(now_dt, d)
                  IN  [is_outdated |-> age_days >= stale_after_days,
                       age_days |-> Num(age_days)]

\* the pair (is_outdated, age_days); now_dt is the clock's reading
assess_staleness(latest_period, now_dt, stale_after_days) ==
    IF IsNone(latest_period) THEN [is_outdated |-> TRUE, age_days |-> None]
    ELSE LET d == _extract_period_date(latest_period)
         IN  IF IsNone(d) THEN [is_outdated |-> TRUE, age_days |-> None]
             ELSE LET age_days == DeltaDays(now_dt, d)
                  IN  [is_outdated |-> age_days > stale_after_days,
                       age_days |-> Num(age_days)]

----------------------------------------------------------------------------
(* domain/services/insider_classifier.py *)

\* blob.get(a) if a in blob else blob.get(b)
GetEither(blob, a, b) == IF a \in DOMAIN blob THEN blob[a] ELSE Get(blob, b)

\* mutant: the sign of the net change is applied after the override
Mut_insider_net_after_override(insider_blob) ==
    IF Not(insider_blob)
    THEN [headline |-> "None",
          stats |-> [total_buy_trades |-> None, total_sell_trades |-> None,
                     net_shares_change |-> None, last_activity_date |-> None,
                     source |-> None]]
    ELSE LET total_buy  == safe_float(GetEither(insider_blob, "total_buy_trades",
                                                "buys_count"))
             total_sell == safe_float(GetEither(insider_blob, "total_sell_trades",
                                                "sells_count"))
             net_chg    == safe_float(GetEither(insider_blob, "net_shares_change",
                                                "net_shares"))
             by_counts  == IF ~IsNone(total_buy) /\ ~IsNone(total_sell)
                           THEN IF RatLt(Num(0), total_sell) /\ IsZero(total_buy)
                                THEN "Sell"
                                ELSE IF RatLt(Num(0), total_buy) /\ IsZero(total_sell)
                                THEN "Buy" ELSE "Unknown"
                           ELSE "Unknown"
             by_net     == IF IsNone(net_chg) THEN by_counts
                           ELSE IF RatLt(Num(0), net_chg) THEN "Net Buy"
                           ELSE IF RatLt(net_chg, Num(0)) THEN "Net Sell"
                           ELSE by_counts
             headline   == IF IsNone(total_buy) /\ IsNone(total_sell) /\ IsNone(net_chg)
                           THEN "None" ELSE by_net
         IN  [headline |-> headline,
              stats |-> [total_buy_trades |-> total_buy, total_sell_trades |-> total_sell,
                         net_shares_change |-> net_chg,
                         last_activity_date |-> Or(Get(insider_blob, "last_activity_date"),
                                                   Get(insider_blob, "as_of")),
                         source |-> Get(insider_blob, "source")]]

\* the pair (headline, stats)
insider_signal(insider_blob) ==
    IF Not(insider_blob)
    THEN [headline |-> "None",
          stats |-> [total_buy_trades |-> None, total_sell_trades |-> None,
                     net_shares_change |-> None, last_activity_date |-> None,
                     source |-> None]]
    ELSE LET total_buy  == safe_float(GetEither(insider_blob, "total_buy_trades",
                                                "buys_count"))
             total_sell == safe_float(GetEither(insider_blob, "total_sell_trades",
                                                "sells_count"))
             net_chg    == safe_float(GetEither(insider_blob, "net_shares_change",
                                                "net_shares"))
             last_dt    == Or(Get(insider_blob, "last_activity_date"),
                              Get(insider_blob, "as_of"))
             src        == Get(insider_blob, "source")
             by_net     == IF IsNone(net_chg) THEN "Unknown"
                           ELSE IF RatLt(Num(0), net_chg) THEN "Net Buy"
                           ELSE IF RatLt(net_chg, Num(0)) THEN "Net Sell"
                           ELSE "Unknown"
             by_buys    == IF ~IsNone(total_buy) /\ ~IsNone(total_sell)
                           THEN IF RatLt(Num(0), total_buy) /\ IsZero(total_sell)
                                THEN "Buy" ELSE by_net
                           ELSE by_net
             by_sells   == IF ~IsNone(total_buy) /\ ~IsNone(total_sell)
                           THEN IF RatLt(Num(0), total_sell) /\ IsZero(total_buy)
                                THEN "Sell" ELSE by_buys
                           ELSE by_buys
             headline   == IF IsNone(total_buy) /\ IsNone(total_sell) /\ IsNone(net_chg)
                           THEN "None" ELSE by_sells
         IN  [headline |-> headline,
              stats |-> [total_buy_trades |-> total_buy, total_sell_trades |-> total_sell,
                         net_shares_change |-> net_chg, last_activity_date |-> last_dt,
                         source |-> src]]

----------------------------------------------------------------------------
(* domain/services/flag_classifier.py.  The labels are written in ASCII:   *)
(* <= and >= stand for the signs the labels carry.                         *)

\* the label when the rule fires, nothing otherwise
Flag(fires, label) == IF fires THEN <<label>> ELSE <<>>

\* mutant: the current ratio has to exceed 2
Mut_classify_flags_strict(price_to_ncavps, cr, de, ncav_qoq, ncav_hoh, ncav_yoy, dil_qoq, dil_hoh, dil_yoy, max_dil_1y, max_issue_3y, max_buyback_3y, is_outdated) ==
    LET Burn(chg) == ~IsNone(chg) /\ RatLt(chg, Rat(-2, 10))
        Dil(dil)  == ~IsNone(dil) /\ RatLt(Rat(5, 100), dil)
    IN  [green |->
            Flag(~IsNone(price_to_ncavps) /\ RatLe(price_to_ncavps, Rat(2, 3)),
                 "Trading <= 2/3 NCAV")
            \o Flag(~IsNone(cr) /\ RatLt(Num(2), cr), "Current ratio >= 2")
            \o Flag(~IsNone(max_buyback_3y) /\ RatLt(max_buyback_3y, Rat(-5, 100)),
                    "Meaningful buyback in last 3y")
            \o Flag(~IsNone(ncav_yoy) /\ RatLe(Num(0), ncav_yoy),
                    "NCAV stable YoY or improving"),
         red |->
            Flag(is_outdated, "Financials are stale")
            \o Flag(~IsNone(de) /\ RatLt(Rat(15, 10), de), "High leverage")
            \o Flag(Burn(ncav_qoq), "NCAV down QoQ >20%")
            \o Flag(Burn(ncav_hoh), "NCAV down HoH >20%")
            \o Flag(Burn(ncav_yoy), "NCAV down YoY >20%")
            \o Flag(Dil(dil_qoq), "Dilution QoQ >5%")
            \o Flag(Dil(dil_hoh), "Dilution HoH >5%")
            \o Flag(Dil(dil_yoy), "Dilution YoY >5%")
            \o Flag(~IsNone(max_dil_1y) /\ RatLt(Rat(8, 100), max_dil_1y),
                    "Issued >8% in last 12m")
            \o Flag(~IsNone(max_issue_3y) /\ RatLt(Rat(20, 100), max_issue_3y),
                    "Issued >20% in last 3y")]

\* the pair (green, red); is_outdated is a Boolean, the others floats or None
classify_flags(price_to_ncavps, cr, de, ncav_qoq, ncav_hoh, ncav_yoy, dil_qoq, dil_hoh, dil_yoy, max_dil_1y, max_issue_3y, max_buyback_3y, is_outdated) ==
    LET Burn(chg) == ~IsNone(chg) /\ RatLt(chg, Rat(-2, 10))
        Dil(dil)  == ~IsNone(dil) /\ RatLt(Rat(5, 100), dil)
    IN  [green |->
            Flag(~IsNone(price_to_ncavps) /\ RatLe(price_to_ncavps, Rat(2, 3)),
                 "Trading <= 2/3 NCAV")
            \o Flag(~IsNone(cr) /\ RatLe(Num(2), cr), "Current ratio >= 2")
            \o Flag(~IsNone(max_buyback_3y) /\ RatLt(max_buyback_3y, Rat(-5, 100)),
                    "Meaningful buyback in last 3y")
            \o Flag(~IsNone(ncav_yoy) /\ RatLe(Num(0), ncav_yoy),
                    "NCAV stable YoY or improving"),
         red |->
            Flag(is_outdated, "Financials are stale")
            \o Flag(~IsNone(de) /\ RatLt(Rat(15, 10), de), "High leverage")
            \o Flag(Burn(ncav_qoq), "NCAV down QoQ >20%")
            \o Flag(Burn(ncav_hoh), "NCAV down HoH >20%")
            \o Flag(Burn(ncav_yoy), "NCAV down YoY >20%")
            \o Flag(Dil(dil_qoq), "Dilution QoQ >5%")
            \o Flag(Dil(dil_hoh), "Dilution HoH >5%")
            \o Flag(Dil(dil_yoy), "Dilution YoY >5%")
            \o Flag(~IsNone(max_dil_1y) /\ RatLt(Rat(8, 100), max_dil_1y),
                    "Issued >8% in last 12m")
            \o Flag(~IsNone(max_issue_3y) /\ RatLt(Rat(20, 100), max_issue_3y),
                    "Issued >20% in last 3y")]

----------------------------------------------------------------------------
(* domain/services/netnet_analysis.py *)

\* the loops over the containers and the aliases, from container c and alias
\* i on
RECURSIVE SharesScan(_, _, _)
SharesScan(containers, c, i) ==
    IF c > Len(containers) THEN None
    ELSE IF i > Len(ShareKeys) THEN SharesScan(containers, c + 1, 1)
    ELSE LET raw  == Get(containers[c], ShareKeys[i])
             raw1 == IF IsDict(raw) /\ "val" \in DOMAIN raw THEN raw["val"] ELSE raw
             val  == safe_float(raw1)
         IN  IF ~IsNone(val) THEN val ELSE SharesScan(containers, c, i + 1)

_extract_shares_out(period) ==
    IF Not(period) THEN None
    ELSE LET bal  == Get(period, "balance")
             meta == Get(period, "meta")
         IN  SharesScan(<<period>> \o (IF IsDict(bal) THEN <<bal>> ELSE <<>>)
                                   \o (IF IsDict(meta) THEN <<meta>> ELSE <<>>), 1, 1)

\* str(x)
StrOf(x) == IF IsStr(x) THEN x ELSE [k |-> "str_of", of |-> x]

\* The body of analyze_one_ticker in the order of its statements; each group
\* of locals is computed once and handed on as a record.

\* lines 64-68, 72 and 83-85, 117-123, 146-150: what the timeline determines
TimelineLocals(core, periods, latest, now) ==
    [latest |-> latest,
     cr |-> current_ratio(latest),
     de |-> de_ratio(latest),
     ncav_native |-> ncav_total_native(latest),
     shares |-> _extract_shares_out(latest),
     listing_ccy |-> listing_ccy_for_ticker(core),
     q_pair |-> pair_for_qoq(periods),
     h_pair |-> pair_for_hoh(periods),
     y_pair |-> pair_for_yoy(periods),
     max_dil_1y |-> max_dilution_within_1y(periods),
     win3 |-> max_change_within_3y(periods),
     stale |-> assess_staleness(latest, now, 540),
     latest_fs_date |-> IF Not(latest) THEN None
                        ELSE Or(Get(latest, "statement_date"), Get(latest, "date")),
     core_period_count |-> Len(periods)]

\* pct_change(ncav_from(pair[1]), ncav_from(pair[0])) if pair else None
ncav_chg(pair) ==
    IF IsNone(pair) THEN None
    ELSE pct_change(ncav_total_native(pair.older), ncav_total_native(pair.newer))

dil_from(pair) ==
    IF IsNone(pair) THEN None
    ELSE pct_change(_extract_shares_out(pair.older), _extract_shares_out(pair.newer))

\* lines 69, 73 and 90-115: per-share NCAV, NCAV in USD, trends and dilution
DerivedLocals(t, fx_rates) ==
    [ncav_ps |-> compute_ncav_ps_from_period(t.latest, t.shares),
     ncav_usd |-> convert_between(t.ncav_native, t.listing_ccy, Str("USD"), fx_rates),
     ncav_qoq |-> ncav_chg(t.q_pair),
     ncav_hoh |-> ncav_chg(t.h_pair),
     ncav_yoy |-> ncav_chg(t.y_pair),
     dilution_qoq |-> dil_from(t.q_pair),
     dilution_hoh |-> dil_from(t.h_pair),
     dilution_yoy |-> dil_from(t.y_pair)]

\* lines 76-80: price_to_ncavps, None unless the price is there and ncav_ps
\* not in (None, 0)
PriceToNcavps(last_price, ncav_ps) ==
    IF ~IsNone(last_price) /\ ~IsNone(ncav_ps) /\ ~IsZero(ncav_ps)
    THEN RatDiv(last_price, ncav_ps) ELSE None

\* mutant: the buyback boolean asks for more than 10%
Mut_has_recent_buyback_ten(win3) ==
    ~IsNone(win3.max_buyback) /\ RatLt(win3.max_buyback, Rat(-10, 100))

\* lines 197-199: the convenience boolean of the buyback rule
has_recent_buyback(win3) ==
    ~IsNone(win3.max_buyback) /\ RatLt(win3.max_buyback, Rat(-5, 100))

\* mutant: the dilution boolean asks for more than 25%
Mut_has_recent_dilution_quarter(win3) ==
    ~IsNone(win3.max_issue) /\ RatLt(Rat(25, 100), win3.max_issue)

\* lines 200-202: the convenience boolean of the dilution rule
has_recent_dilution(win3) ==
    ~IsNone(win3.max_issue) /\ RatLt(Rat(8, 100), win3.max_issue)

\* lines 153-203: the result
ValuationResult(core, t, d, price_to_ncavps, last_price, insider, flags) ==
    IF "meta" \notin DOMAIN core THEN Raise("KeyError")
    ELSE IF "ticker" \notin DOMAIN core["meta"] THEN Raise("KeyError")
    ELSE [k |-> "ValuationResult",
          ticker |-> core["meta"]["ticker"],
          exchange |-> Get(core["meta"], "exchange"),
          country_iso |-> Get(core["meta"], "country_iso"),
          sector |-> Get(core["meta"], "sector"),
          industry |-> Get(core["meta"], "industry"),
          reporting_currency |-> t.listing_ccy,
          latest_fs_date |-> t.latest_fs_date,
          current_ratio |-> t.cr,
          debt_to_equity |-> t.de,
          ncav_total_native |-> t.ncav_native,
          ncav_total_usd |-> d.ncav_usd,
          ncav_per_share |-> d.ncav_ps,
          ncav_ps_shortlist |-> Get(core["meta"], "ncav_ps_shortlist"),
          shares_out |-> t.shares,
          last_price |-> last_price,
          price_to_ncavps |-> price_to_ncavps,
          margin_of_safety |-> IF IsNone(price_to_ncavps) THEN None
                               ELSE RatSub(Num(1), price_to_ncavps),
          fx_rate_used |-> None,
          fx_source |-> Str("cache"),
          ncavps_fx_note |-> None,
          ncav_change_qoq |-> d.ncav_qoq,
          ncav_change_hoh |-> d.ncav_hoh,
          ncav_change_yoy |-> d.ncav_yoy,
          dilution_qoq |-> d.dilution_qoq,
          dilution_hoh |-> d.dilution_hoh,
          dilution_yoy |-> d.dilution_yoy,
          max_dilution_1y |-> t.max_dil_1y,
          max_issue_3y |-> t.win3.max_issue,
          max_buyback_3y |-> t.win3.max_buyback,
          is_outdated |-> t.stale.is_outdated,
          data_age_days |-> t.stale.age_days,
          fs_source |-> Get(core, "fs_source"),
          note |-> Get(core, "note"),
          insider_signal |-> Str(insider.headline),
          green_flags |-> flags.green,
          red_flags |-> flags.red,
          core_period_count |-> t.core_period_count,
          insider_records |-> insider.stats.total_buy_trades,
          latest_period_label |-> IF Not(t.latest) THEN None
                                  ELSE StrOf(t.latest_fs_date),
          listing_note |-> Get(core["meta"], "listing_note"),
          passes_price_to_ncav_rule |->
              ~IsNone(price_to_ncavps) /\ RatLe(price_to_ncavps, Rat(2, 3)),
          has_recent_buyback |-> has_recent_buyback(t.win3),
          has_recent_dilution |-> has_recent_dilution(t.win3)]

\* lines 129-143, then the result
WithFlags(core, t, d, price_to_ncavps, last_price, insider) ==
    ValuationResult(core, t, d, price_to_ncavps, last_price, insider,
        classify_flags(price_to_ncavps, t.cr, t.de, d.ncav_qoq, d.ncav_hoh, d.ncav_yoy,
                       d.dilution_qoq, d.dilution_hoh, d.dilution_yoy, t.max_dil_1y,
                       t.win3.max_issue, t.win3.max_buyback, t.stale.is_outdated))

WithDerived(core, t, d, insider_blob, last_price) ==
    WithFlags(core, t, d, PriceToNcavps(last_price, d.ncav_ps), last_price,
              insider_signal(insider_blob))

WithTimeline(core, t, insider_blob, last_price, fx_rates) ==
    WithDerived(core, t, DerivedLocals(t, fx_rates), insider_blob, last_price)

WithPeriods(core, periods, insider_blob, last_price, fx_rates, now) ==
    WithTimeline(core,
                 TimelineLocals(core, periods,
                                IF periods # <<>> THEN periods[1] ELSE None, now),
                 insider_blob, last_price, fx_rates)

\* now is the reading of the clock that assess_staleness takes
analyze_one_ticker(core, insider_blob, last_price, fx_rates, now) ==
    WithPeriods(core, all_periods_sorted(core), insider_blob, last_price, fx_rates, now)

----------------------------------------------------------------------------
(* domain/services/periods.py: what the timeline functions do to the lists *)
(* they are given.  _get_period_list returns the bucket's own list, not a  *)
(* copy, so a write to it would be a write to the core record.             *)

\* mutant: the list given is sorted in place
Mut_sort_in_place(periods) == _sort_periods_desc(periods)

\* the list periods after _sort_periods_desc(periods): the function iterates
\* over periods, and appends to and sorts its own list with_dates
PeriodsAfterSort(periods) == periods

\* the core record once the list _get_period_list(core, bucket) returned holds
\* items: the list sits where _get_period_list found it
PutPeriodList(core, bucket, items) ==
    LET fin  == Or(Get(core, "financials"), EmptyDict)
        node == Get(fin, bucket)
    IN  IF IsDict(node)
        THEN IF IsList(Get(node, "periods")) /\ ~Not(Get(node, "periods"))
             THEN [core EXCEPT !["financials"][bucket]["periods"] = List(items)]
             ELSE core
        ELSE IF IsList(node) THEN [core EXCEPT !["financials"][bucket] = List(items)]
        ELSE IF IsList(Get(core, bucket)) /\ ~Not(Get(core, bucket))
             THEN [core EXCEPT ![bucket] = List(items)]
        ELSE core

\* the core record after quarters_sorted(core) or annuals_sorted(core)
CoreAfterSorted(core, bucket) ==
    PutPeriodList(core, bucket, PeriodsAfterSort(_get_period_list(core, bucket)))

\* the core record after all_periods_sorted(core); the third sort is of the
\* function's own list combos
CoreAfterAllPeriods(core) ==
    CoreAfterSorted(CoreAfterSorted(core, "quarterly"), "annual")

\* the core record after analyze_one_ticker: all_periods_sorted(core) at line
\* 60 and once more inside listing_ccy_for_ticker when the meta block names no
\* currency; every other use of the core record is a read
CoreAfterAnalyze(core) ==
    LET meta == IF "meta" \in DOMAIN core THEN core["meta"] ELSE EmptyDict
        once == CoreAfterAllPeriods(core)
    IN  IF Not(Or(Get(meta, "currency"), Get(meta, "listing_currency")))
        THEN CoreAfterAllPeriods(once) ELSE once

----------------------------------------------------------------------------
(* Specification of the orchestrator: the core record of one ticker is     *)
(* filled period by period, then analyze_one_ticker is called once         *)

\* the most periods the quarterly and the annual bucket hold together
MaxPeriods == 2

\* the statements the adapters deliver: nested under balance with {val: ...}
\* records, flat, with the currency under different keys or under balance,
\* two statements of one day, one without a parseable date, one stale
AnalyzePeriods ==
    { [statement_date |-> DateStr("%Y-%m-%d", 0, 0), currency |-> Str("JPY"),
       balance |-> [assets_current |-> [val |-> Num(800)], assets_total |-> Num(900),
                    liab_current |-> Num(100), liab_total |-> Num(300),
                    shares_out |-> [val |-> Num(100)]]],
      [statement_date |-> DateStr("%Y-%m-%dT%H:%M:%S", 0, 43200),
       currency |-> Str("USD"), assets_current |-> Num(300), liab_current |-> Num(0),
       liab_total |-> Num(500), shares_out |-> Num(100)],
      [period_end |-> DateStr("%Y/%m/%d", -95, 0), ccy |-> Str("jpy"),
       assets_current |-> Num(500), liab_total |-> Num(300),
       shares_outstanding |-> Str("110")],
      [statement_date |-> DateTime(-400, 0),
       balance |-> [currency |-> Str("HKD"), assets_total |-> Num(500),
                    liab_total |-> Num(300)],
       meta |-> [basic_shares_out |-> Num(90)]],
      [date |-> DateStr("%Y-%m-%d", -600, 0), currency |-> Str(""),
       assets_current |-> Num(800), liab_total |-> Num(300), shares_out |-> Num(0)],
      [statement_date |-> DateStr("%d.%m.%Y", 0, 0), currency |-> Str("USD"),
       assets_current |-> Num(900), liab_total |-> Num(100), shares_out |-> Num(100)] }

\* the meta block: without a currency, with the listing currency, and with an
\* empty currency beside a listing_currency
AnalyzeMetas ==
    { [ticker |-> Str("T")],
      [ticker |-> Str("T"), currency |-> Str("USD")],
      [ticker |-> Str("T"), currency |-> Str(""), listing_currency |-> Str("hkd")] }

\* the empty core record in the two shapes _get_period_list reads
EmptyCore(meta, shape) ==
    IF shape = "financials"
    THEN [meta |-> meta,
          financials |-> [quarterly |-> [periods |-> List(<<>>)], annual |-> List(<<>>)]]
    ELSE [meta |-> meta, quarterly |-> List(<<>>), annual |-> List(<<>>)]

\* the core record with the period appended to the bucket
AddPeriod(core, bucket, p) ==
    IF "financials" \in DOMAIN core
    THEN IF bucket = "quarterly"
         THEN [core EXCEPT !.financials.quarterly.periods.items = Append(@, p)]
         ELSE [core EXCEPT !.financials.annual.items = Append(@, p)]
    ELSE [core EXCEPT ![bucket].items = Append(@, p)]

PeriodCount(core) ==
    Len(_get_period_list(core, "quarterly")) + Len(_get_period_list(core, "annual"))

\* USD per unit of currency
AnalyzeTables ==
    { [USD |-> Num(1), JPY |-> Rat(1, 100), HKD |-> Rat(1, 8)],
      [JPY |-> Rat(1, 100)] }

\* the insider blob of a ticker; the screening service passes {} for none
AnalyzeBlobs ==
    { EmptyDict,
      [buys_count |-> Num(2), sells_count |-> Num(0), net_shares |-> Num(100)] }

\* the prices of the shortlist: none, a zero quote and a quote
AnalyzePrices == {None, Num(0), Num(2)}

InitAnalyze ==
    /\ pc = "idle"
    /\ \E meta \in AnalyzeMetas, shape \in {"financials", "legacy"},
          insider_blob \in AnalyzeBlobs, last_price \in AnalyzePrices,
          fx_rates \in AnalyzeTables :
          input = [core |-> EmptyCore(meta, shape), insider_blob |-> insider_blob,
                   last_price |-> last_price, fx_rates |-> fx_rates,
                   now |-> DateTime(0, 43200)]
    /\ output = None

LoadQuarterlyPeriod ==
    /\ pc = "idle"
    /\ PeriodCount(input.core) < MaxPeriods
    /\ \E p \in AnalyzePeriods :
          input' = [input EXCEPT !.core = AddPeriod(@, "quarterly", p)]
    /\ UNCHANGED <<pc, output>>

LoadAnnualPeriod ==
    /\ pc = "idle"
    /\ PeriodCount(input.core) < MaxPeriods
    /\ \E p \in AnalyzePeriods :
          input' = [input EXCEPT !.core = AddPeriod(@, "annual", p)]
    /\ UNCHANGED <<pc, output>>

\* the call returns the result; of its arguments it reads the insider blob,
\* the price and the rate table, and hands the core record to the timeline
\* functions
Call_analyze_one_ticker ==
    /\ pc = "idle"
    /\ pc' = "analyze_one_ticker"
    /\ output' = analyze_one_ticker(input.core, input.insider_blob, input.last_price,
                                    input.fx_rates, input.now)
    /\ input' = [input EXCEPT !.core = CoreAfterAnalyze(@)]

NextAnalyze ==
    \/ LoadQuarterlyPeriod
    \/ LoadAnnualPeriod
    \/ Call_analyze_one_ticker

SpecAnalyze == InitAnalyze /\ [][NextAnalyze]_vars

----------------------------------------------------------------------------
(* Properties of the orchestrator *)

\* the newest period of the merged timeline, None without one
LatestPeriod ==
    LET periods == all_periods_sorted(input.core)
    IN  IF periods = <<>> THEN None ELSE periods[1]

\* C9: the ncav_total_usd of the result is the native NCAV of the latest
\* period converted to USD from the currency detected on that latest period,
\* also when the meta block names a different listing currency.
C9_PeriodCurrency ==
    pc = "analyze_one_ticker" =>
        output.ncav_total_usd =
            convert_between(ncav_total_native(LatestPeriod),
                            detect_period_currency(LatestPeriod), Str("USD"),
                            input.fx_rates)

----------------------------------------------------------------------------
(* Specification of the timeline: the two statement buckets of a core      *)
(* record are filled period by period, then one of the timeline functions  *)
(* is called                                                               *)

InitTimeline ==
    /\ pc = "idle"
    /\ \E shape \in {"financials", "legacy"} :
          input = [core |-> EmptyCore([ticker |-> Str("T")], shape)]
    /\ output = None

LoadQuarterlyStatement ==
    /\ pc = "idle"
    /\ PeriodCount(input.core) < MaxLen
    /\ \E p \in AnalyzePeriods :
          input' = [input EXCEPT !.core = AddPeriod(@, "quarterly", p)]
    /\ UNCHANGED <<pc, output>>

LoadAnnualStatement ==
    /\ pc = "idle"
    /\ PeriodCount(input.core) < MaxLen
    /\ \E p \in AnalyzePeriods :
          input' = [input EXCEPT !.core = AddPeriod(@, "annual", p)]
    /\ UNCHANGED <<pc, output>>

Call_quarters_sorted ==
    /\ pc = "idle"
    /\ pc' = "quarters_sorted"
    /\ output' = List(quarters_sorted(input.core))
    /\ input' = [input EXCEPT !.core = CoreAfterSorted(@, "quarterly")]

Call_annuals_sorted ==
    /\ pc = "idle"
    /\ pc' = "annuals_sorted"
    /\ output' = List(annuals_sorted(input.core))
    /\ input' = [input EXCEPT !.core = CoreAfterSorted(@, "annual")]

Call_all_periods_sorted ==
    /\ pc = "idle"
    /\ pc' = "all_periods_sorted"
    /\ output' = List(all_periods_sorted(input.core))
    /\ input' = [input EXCEPT !.core = CoreAfterAllPeriods(@)]

NextTimeline ==
    \/ LoadQuarterlyStatement
    \/ LoadAnnualStatement
    \/ Call_quarters_sorted
    \/ Call_annuals_sorted
    \/ Call_all_periods_sorted

SpecTimeline == InitTimeline /\ [][NextTimeline]_vars


----------------------------------------------------------------------------
(* Properties of the timeline *)

\* the periods of a bucket of the core record, as loaded
Bucket(bucket) ==
    IF "financials" \in DOMAIN input.core
    THEN IF bucket = "quarterly" THEN input.core.financials.quarterly.periods.items
         ELSE input.core.financials.annual.items
    ELSE input.core[bucket].items

Elems(seq) == {seq[i] : i \in 1..Len(seq)}

HasDate(p) == ~IsNone(_extract_period_date(p))

\* the ISO date signature of a dated period
DaySig(p) == _extract_period_date(p).day

\* C11: the merged timeline is ordered newest-first, holds no two periods of
\* one date signature and no period without a parseable date, and holds
\* exactly one period, taken from the buckets, for every parseable date of
\* either bucket.
C11_MergedTimeline ==
    pc = "all_periods_sorted" =>
        LET merged == output.items
            loaded == Elems(Bucket("quarterly")) \cup Elems(Bucket("annual"))
        IN  /\ \A i \in 1..Len(merged) : merged[i] \in loaded /\ HasDate(merged[i])
            /\ \A i \in 1..Len(merged) - 1 :
                  Stamp(_extract_period_date(merged[i]))
                      >= Stamp(_extract_period_date(merged[i + 1]))
            /\ \A i, j \in 1..Len(merged) :
                  i # j => DaySig(merged[i]) # DaySig(merged[j])
            /\ {DaySig(merged[i]) : i \in 1..Len(merged)}
                  = {DaySig(p) : p \in {q \in loaded : HasDate(q)}}

\* two statements of one day, one in each bucket, and an undated one are
\* merged into one period
C11_Witness ==
    /\ pc = "all_periods_sorted"
    /\ Len(output.items) = 1
    /\ PeriodCount(input.core) = 3
    /\ \E p \in Elems(Bucket("quarterly")) \cup Elems(Bucket("annual")) : ~HasDate(p)
    /\ \E p \in Elems(Bucket("quarterly")), q \in Elems(Bucket("annual")) :
          HasDate(p) /\ HasDate(q) /\ p # q /\ DaySig(p) = DaySig(q)

\* C12: for every date signature the quarterly bucket holds, the period the
\* merged timeline has for it is a quarterly one; an annual period of the same
\* signature is left out, whatever the order inside the buckets.
C12_QuarterlyWins ==
    pc = "all_periods_sorted" =>
        \A i \in 1..Len(output.items) :
            LET sameDay(b) == {p \in Elems(Bucket(b)) :
                                  HasDate(p) /\ DaySig(p) = DaySig(output.items[i])}
            IN  sameDay("quarterly") # {} => output.items[i] \in sameDay("quarterly")

\* the annual bucket has the later statement of the day and the quarterly
\* bucket the earlier one, in last place after an older statement; the
\* quarterly one is in the timeline
C12_Witness ==
    /\ pc = "all_periods_sorted"
    /\ Len(Bucket("annual")) = 1 /\ Len(Bucket("quarterly")) = 2
    /\ HasDate(Bucket("quarterly")[1]) /\ HasDate(Bucket("quarterly")[2])
    /\ HasDate(Bucket("annual")[1])
    /\ DaySig(Bucket("quarterly")[1]) < DaySig(Bucket("quarterly")[2])
    /\ DaySig(Bucket("annual")[1]) = DaySig(Bucket("quarterly")[2])
    /\ Stamp(_extract_period_date(Bucket("annual")[1]))
          > Stamp(_extract_period_date(Bucket("quarterly")[2]))
    /\ Bucket("annual")[1] \notin Elems(Bucket("quarterly"))
    /\ Bucket("quarterly")[2] \in Elems(output.items)
    /\ Bucket("annual")[1] \notin Elems(output.items)

----------------------------------------------------------------------------
(* Properties of the orchestrator's result *)

\* the fields of a result that hold a float or None
FloatFields ==
    {"current_ratio", "debt_to_equity", "ncav_total_native", "ncav_total_usd",
     "ncav_per_share", "price_to_ncavps", "margin_of_safety", "ncav_change_qoq",
     "ncav_change_hoh", "ncav_change_yoy", "dilution_qoq", "dilution_hoh",
     "dilution_yoy", "max_dilution_1y", "max_issue_3y", "max_buyback_3y"}

\* no period of either bucket has a parseable date
EmptyTimeline ==
    \A p \in Elems(Bucket("quarterly")) \cup Elems(Bucket("annual")) : ~HasDate(p)

\* C13: for a core record with a ticker, analyze_one_ticker returns a
\* ValuationResult and nothing in it is a raised error; with an empty timeline
\* every ratio, NCAV value, trend and dilution percentage is None, is_outdated
\* is true, data_age_days is None and green_flags is empty.
C13_DegradesGracefully ==
    pc = "analyze_one_ticker" /\ "ticker" \in DOMAIN input.core.meta =>
        /\ Tag(output) = "ValuationResult"
        /\ \A f \in FloatFields : IsNone(output[f]) \/ IsNum(output[f])
        /\ EmptyTimeline =>
              /\ \A f \in FloatFields : IsNone(output[f])
              /\ output.is_outdated = TRUE
              /\ IsNone(output.data_age_days)
              /\ output.green_flags = <<>>
              /\ output.core_period_count = 0

\* a core record whose only statement has no parseable date, with a price, a
\* rate table and an insider blob, is analyzed
C13_Witness ==
    /\ pc = "analyze_one_ticker"
    /\ Tag(output) = "ValuationResult"
    /\ EmptyTimeline
    /\ PeriodCount(input.core) = 1
    /\ input.last_price = Num(2)
    /\ output.red_flags = <<"Financials are stale">>
    /\ output.insider_signal = Str("Buy")

----------------------------------------------------------------------------
(* Specification of the insider classifier: one call on an insider blob    *)

\* a count or a net change of a blob: missing, under either of its two keys,
\* zero, present as None beside the other key, or a text that is no number
QuantityParts(first, second, values) ==
    {EmptyDict}
    \cup UNION {{[x \in {first} |-> v], [x \in {second} |-> v]} : v \in values}
    \cup {[x \in {first, second} |-> IF x = first THEN None ELSE Num(3)],
          [x \in {first} |-> Str("n/a")]}

BuyParts == QuantityParts("total_buy_trades", "buys_count", {Num(0), Num(3)})

SellParts == QuantityParts("total_sell_trades", "sells_count", {Num(0), Num(2)})

NetParts ==
    QuantityParts("net_shares_change", "net_shares", {Num(0), Num(100), Num(-100)})

InitInsider ==
    /\ pc = "idle"
    /\ \E buy \in BuyParts, sell \in SellParts, net \in NetParts,
          rest \in {EmptyDict, [source |-> Str("sec")]} :
          input = [insider_blob |-> buy @@ sell @@ net @@ rest]
    /\ output = None

Call_insider_signal ==
    /\ pc = "idle"
    /\ pc' = "insider_signal"
    /\ output' = insider_signal(input.insider_blob)
    /\ UNCHANGED input

NextInsider == Call_insider_signal

SpecInsider == InitInsider /\ [][NextInsider]_vars

----------------------------------------------------------------------------
(* Properties of the insider classifier *)

\* a quantity of the blob: the value under its first key if the blob has the
\* key, else under its second; None when missing or no number
Quantity(first, second) ==
    safe_float(IF first \in DOMAIN input.insider_blob THEN input.insider_blob[first]
               ELSE Get(input.insider_blob, second))

Buys == Quantity("total_buy_trades", "buys_count")

Sells == Quantity("total_sell_trades", "sells_count")

NetChange == Quantity("net_shares_change", "net_shares")

Positive(x) == ~IsNone(x) /\ RatLt(Num(0), x)

Negative(x) == ~IsNone(x) /\ RatLt(x, Num(0))

\* present and zero
Zero(x) == ~IsNone(x) /\ IsZero(x)

\* C14: for a non-empty blob the headline is "None" exactly when the three
\* quantities are all absent; otherwise "Buy" when both counts are present
\* with buys > 0 and sells = 0, "Sell" when both are present with sells > 0
\* and buys = 0, whatever the sign of the net change, and else "Net Buy" for a
\* net change > 0, "Net Sell" for one < 0 and "Unknown" for none or zero.
C14_Headline ==
    pc = "insider_signal" /\ DOMAIN input.insider_blob # {} =>
        LET allAbsent == IsNone(Buys) /\ IsNone(Sells) /\ IsNone(NetChange)
        IN  /\ output.headline = "None" <=> allAbsent
            /\ ~allAbsent =>
                  output.headline =
                      IF Positive(Buys) /\ Zero(Sells) THEN "Buy"
                      ELSE IF Positive(Sells) /\ Zero(Buys) THEN "Sell"
                      ELSE IF Positive(NetChange) THEN "Net Buy"
                      ELSE IF Negative(NetChange) THEN "Net Sell"
                      ELSE "Unknown"

\* three buys, no sells and a negative net change: "Buy"
C14_Witness ==
    /\ pc = "insider_signal"
    /\ Buys = Num(3) /\ Zero(Sells) /\ Negative(NetChange)
    /\ output.headline = "Buy"

\* C15: with buys > 0 and the sell count absent the headline is "Buy", and
\* with sells > 0 and the buy count absent it is "Sell", whatever the net
\* change.
C15_OverrideOnAbsentCount ==
    pc = "insider_signal" =>
        /\ Positive(Buys) /\ IsNone(Sells) => output.headline = "Buy"
        /\ Positive(Sells) /\ IsNone(Buys) => output.headline = "Sell"

----------------------------------------------------------------------------
(* Specification of the flag synthesizer: the arguments start absent or as *)
(* a healthy company's figures, some of them are changed, then            *)
(* classify_flags is called                                                *)

\* the most arguments changed before the call
MaxChanged == 2

FloatParams ==
    {"price_to_ncavps", "cr", "de", "ncav_qoq", "ncav_hoh", "ncav_yoy", "dil_qoq",
     "dil_hoh", "dil_yoy", "max_dil_1y", "max_issue_3y", "max_buyback_3y"}

\* None, and values below, on and above the thresholds the rules of an
\* argument use
FlagValues(name) ==
    CASE name = "price_to_ncavps" -> {None, Rat(3, 5), Rat(2, 3), Num(1)}
      [] name = "cr" -> {None, Num(1), Num(2), Rat(5, 2)}
      [] name = "de" -> {None, Rat(4, 5), Rat(3, 2), Num(2)}
      [] name \in {"ncav_qoq", "ncav_hoh"} -> {None, Rat(-1, 2), Rat(-1, 5), Rat(1, 20)}
      [] name = "ncav_yoy" -> {None, Rat(-1, 2), Rat(-1, 5), Rat(-1, 10), Num(0)}
      [] name \in {"dil_qoq", "dil_hoh", "dil_yoy"} -> {None, Num(0), Rat(1, 20), Rat(1, 10)}
      [] name = "max_dil_1y" -> {None, Rat(1, 20), Rat(2, 25), Rat(1, 10)}
      [] name = "max_issue_3y" -> {None, Rat(1, 10), Rat(1, 5), Rat(1, 2)}
      [] name = "max_buyback_3y" -> {None, Rat(-1, 10), Rat(-1, 20), Num(0)}
      [] name = "is_outdated" -> {TRUE, FALSE}

\* no figure at all, and a healthy company: price at 0.6 of NCAV per share,
\* current ratio 2.5, D/E 0.8, NCAV up 5% in a year, no change of the share
\* count, fresh statements
FlagBases ==
    { [name \in FloatParams \cup {"is_outdated"} |->
          IF name = "is_outdated" THEN FALSE ELSE None],
      [name \in FloatParams \cup {"is_outdated"} |->
          CASE name = "price_to_ncavps" -> Rat(3, 5)
            [] name = "cr" -> Rat(5, 2)
            [] name = "de" -> Rat(4, 5)
            [] name = "ncav_yoy" -> Rat(1, 20)
            [] name \in {"ncav_qoq", "ncav_hoh"} -> None
            [] name = "is_outdated" -> FALSE
            [] OTHER -> Num(0)] }

InitFlags ==
    /\ pc = "idle"
    /\ \E base \in FlagBases : input = [args |-> base, changed |-> 0]
    /\ output = None

SetFlagArgument ==
    /\ pc = "idle"
    /\ input.changed < MaxChanged
    /\ \E name \in FloatParams \cup {"is_outdated"} :
          \E v \in FlagValues(name) :
              input' = [args |-> [input.args EXCEPT ![name] = v],
                        changed |-> input.changed + 1]
    /\ UNCHANGED <<pc, output>>

Call_classify_flags ==
    /\ pc = "idle"
    /\ pc' = "classify_flags"
    /\ output' = classify_flags(input.args["price_to_ncavps"], input.args["cr"],
                                input.args["de"], input.args["ncav_qoq"],
                                input.args["ncav_hoh"], input.args["ncav_yoy"],
                                input.args["dil_qoq"], input.args["dil_hoh"],
                                input.args["dil_yoy"], input.args["max_dil_1y"],
                                input.args["max_issue_3y"], input.args["max_buyback_3y"],
                                input.args["is_outdated"])
    /\ UNCHANGED input

NextFlags ==
    \/ SetFlagArgument
    \/ Call_classify_flags

SpecFlags == InitFlags /\ [][NextFlags]_vars

----------------------------------------------------------------------------
(* Properties of the flag synthesizer *)

\* the argument is present and below, at most, above or at least the bound
Below(name, bound) == ~IsNone(input.args[name]) /\ RatLt(input.args[name], bound)

AtMost(name, bound) == ~IsNone(input.args[name]) /\ RatLe(input.args[name], bound)

Above(name, bound) == ~IsNone(input.args[name]) /\ RatLt(bound, input.args[name])

AtLeast(name, bound) == ~IsNone(input.args[name]) /\ RatLe(bound, input.args[name])

\* the green rules in their order: label and whether the rule holds
GreenRules ==
    << <<"Trading <= 2/3 NCAV", AtMost("price_to_ncavps", Rat(2, 3))>>,
       <<"Current ratio >= 2", AtLeast("cr", Num(2))>>,
       <<"Meaningful buyback in last 3y", Below("max_buyback_3y", Rat(-5, 100))>>,
       <<"NCAV stable YoY or improving", AtLeast("ncav_yoy", Num(0))>> >>

RedRules ==
    << <<"Financials are stale", input.args["is_outdated"]>>,
       <<"High leverage", Above("de", Rat(15, 10))>>,
       <<"NCAV down QoQ >20%", Below("ncav_qoq", Rat(-20, 100))>>,
       <<"NCAV down HoH >20%", Below("ncav_hoh", Rat(-20, 100))>>,
       <<"NCAV down YoY >20%", Below("ncav_yoy", Rat(-20, 100))>>,
       <<"Dilution QoQ >5%", Above("dil_qoq", Rat(5, 100))>>,
       <<"Dilution HoH >5%", Above("dil_hoh", Rat(5, 100))>>,
       <<"Dilution YoY >5%", Above("dil_yoy", Rat(5, 100))>>,
       <<"Issued >8% in last 12m", Above("max_dil_1y", Rat(8, 100))>>,
       <<"Issued >20% in last 3y", Above("max_issue_3y", Rat(20, 100))>> >>

\* the list holds exactly the labels of the rules that hold, each once, in
\* the order of the rules
ExactlyInOrder(list, rules) ==
    /\ \A r \in 1..Len(rules) :
          rules[r][2] <=> \E i \in 1..Len(list) : list[i] = rules[r][1]
    /\ \A i \in 1..Len(list) : \E r \in 1..Len(rules) : list[i] = rules[r][1]
    /\ \A i, j \in 1..Len(list) :
          i < j => \E q, r \in 1..Len(rules) :
                      q < r /\ list[i] = rules[q][1] /\ list[j] = rules[r][1]

\* C16: classify_flags returns a green and a red list that hold exactly the
\* labels of the rules whose argument is present and meets its threshold,
\* each label at most once and in the fixed order of the rules; an absent
\* argument adds no label.
C16_ExactFlags ==
    pc = "classify_flags" =>
        /\ ExactlyInOrder(output.green, GreenRules)
        /\ ExactlyInOrder(output.red, RedRules)

\* the healthy company: three green flags in rule order, no red flag
C16_Witness ==
    /\ pc = "classify_flags"
    /\ input.changed = 0
    /\ input.args["price_to_ncavps"] = Rat(3, 5)
    /\ input.args["cr"] = Rat(5, 2)
    /\ input.args["de"] = Rat(4, 5)
    /\ input.args["ncav_yoy"] = Rat(1, 20)
    /\ output.green = <<"Trading <= 2/3 NCAV", "Current ratio >= 2",
                        "NCAV stable YoY or improving">>
    /\ output.red = <<>>

----------------------------------------------------------------------------
(* Specification of the share-count search: one call of                    *)
(* _extract_shares_out on a period                                         *)

\* what one location holds under the aliases: nothing, a count, a {val: ...}
\* record, a count as text, zero, a negative count, a text that is no number,
\* None beside a count under the next alias, zero beside a count
ShareHoldings ==
    { EmptyDict,
      [shares_out |-> Num(100)],
      [shares_outstanding |-> [val |-> Num(110)]],
      [basic_shares_out |-> Str("95")],
      [shares_out |-> Num(0)],
      [shares_out |-> Num(-100)],
      [shares_out |-> Str("n/a")],
      [shares_out |-> None, shares_outstanding |-> Num(110)],
      [shares_out |-> [val |-> Num(0)], basic_shares_out |-> Num(95)] }

\* the period with the holdings of its three locations; a container without
\* holdings is missing
SharesPeriod(flat, bal, meta) ==
    [statement_date |-> DateStr("%Y-%m-%d", 0, 0)] @@ flat
        @@ (IF bal = EmptyDict THEN EmptyDict ELSE [balance |-> bal])
        @@ (IF meta = EmptyDict THEN EmptyDict ELSE [meta |-> meta])

InitShares ==
    /\ pc = "idle"
    /\ \/ input = [period |-> None]
       \/ input = [period |-> EmptyDict]
       \/ \E flat \in ShareHoldings, bal \in ShareHoldings, meta \in ShareHoldings :
             input = [period |-> SharesPeriod(flat, bal, meta)]
    /\ output = None

Call_extract_shares_out ==
    /\ pc = "idle"
    /\ pc' = "_extract_shares_out"
    /\ output' = _extract_shares_out(input.period)
    /\ UNCHANGED input

\* the lookup of the windowed-extrema search on the same period
Call_shares_out ==
    /\ pc = "idle"
    /\ pc' = "_shares_out"
    /\ output' = _shares_out(input.period)
    /\ UNCHANGED input

NextShares ==
    \/ Call_extract_shares_out
    \/ Call_shares_out

SpecShares == InitShares /\ [][NextShares]_vars

----------------------------------------------------------------------------
(* Properties of the share-count search *)

\* the places of a period in search order: the flat field, the balance
\* container, the meta container, each under the three aliases
SharePlaces ==
    LET places(c) == [i \in 1..Len(ShareKeys) |-> <<c, ShareKeys[i]>>]
    IN  places("flat") \o places("balance") \o places("meta")

\* the value a place holds, as a float; None when the place is missing or
\* holds no number
PlaceValue(place) ==
    LET c == IF place[1] = "flat" THEN input.period ELSE Get(input.period, place[1])
        raw == IF IsDict(c) THEN Get(c, place[2]) ELSE None
    IN  IF IsDict(raw) THEN safe_float(Get(raw, "val")) ELSE safe_float(raw)

HoldsPositive(place) == Positive(PlaceValue(place))

\* C17: the share count is the value of the first place, in search order,
\* that holds a positive value; zero, negative and unparseable values are
\* passed over, and the count is None when no place holds a positive value.
C17_FirstPositive ==
    pc = "_extract_shares_out" /\ ~Not(input.period) =>
        IF \E i \in 1..Len(SharePlaces) : HoldsPositive(SharePlaces[i])
        THEN \E i \in 1..Len(SharePlaces) :
                /\ HoldsPositive(SharePlaces[i])
                /\ \A j \in 1..i - 1 : ~HoldsPositive(SharePlaces[j])
                /\ output = PlaceValue(SharePlaces[i])
        ELSE IsNone(output)

----------------------------------------------------------------------------
(* Properties of the orchestrator's valuation ratios *)

\* present and not zero
NonZero(x) == ~IsNone(x) /\ ~IsZero(x)

\* C18: price_to_ncavps = price / ncav_per_share and margin_of_safety =
\* 1 - price_to_ncavps when the price and ncav_per_share are both present and
\* both nonzero; in every other case, a price of 0 included, both are None;
\* the two are None together.
C18_PriceRatio ==
    pc = "analyze_one_ticker" =>
        /\ IF NonZero(input.last_price) /\ NonZero(output.ncav_per_share)
           THEN /\ output.price_to_ncavps
                      = RatDiv(input.last_price, output.ncav_per_share)
                /\ output.margin_of_safety = RatSub(Num(1), output.price_to_ncavps)
           ELSE IsNone(output.price_to_ncavps) /\ IsNone(output.margin_of_safety)
        /\ IsNone(output.price_to_ncavps) <=> IsNone(output.margin_of_safety)

----------------------------------------------------------------------------
(* Frame of the orchestrator *)

\* C19: a call of analyze_one_ticker leaves its arguments as they were: the
\* core record with the order and content of its two buckets, every period,
\* the insider blob and the rate table.
C19_InputsUnchanged ==
    [][pc' = "analyze_one_ticker" =>
          /\ input'.core = input.core
          /\ input'.insider_blob = input.insider_blob
          /\ input'.fx_rates = input.fx_rates
          /\ input' = input]_vars

\* after the call the quarterly bucket still has its older statement before
\* its newer one, beside an insider blob and a rate table that were read; the
\* meta block names no currency, so the timeline was built twice
C19_Witness ==
    /\ pc = "analyze_one_ticker"
    /\ Tag(output) = "ValuationResult"
    /\ Len(Bucket("quarterly")) = 2
    /\ HasDate(Bucket("quarterly")[1]) /\ HasDate(Bucket("quarterly")[2])
    /\ DaySig(Bucket("quarterly")[1]) < DaySig(Bucket("quarterly")[2])
    /\ output.core_period_count = 2
    /\ output.latest_fs_date = Get(Bucket("quarterly")[2], "statement_date")
    /\ "currency" \notin DOMAIN input.core.meta
    /\ DOMAIN input.insider_blob # {}
    /\ ~IsNone(output.ncav_total_usd)

----------------------------------------------------------------------------
(* Specification of the staleness check: one call of assess_staleness      *)

\* no period, an empty one, periods without a parseable date, and periods
\* dated around the limits, tomorrow, and with a time of day
StalePeriods ==
    { None, EmptyDict,
      [statement_date |-> DateStr("%d.%m.%Y", -600, 0)],
      [statement_date |-> Str("n/a"), shares_out |-> Num(100)] }
    \cup {[statement_date |-> DateStr("%Y-%m-%d", -a, 0)] :
             a \in {-1, 0, 539, 540, 541, 600}}
    \cup { [period_end |-> DateTime(-540, 43200)],
           [statement_date |-> Str("n/a"),
            date |-> DateStr("%Y-%m-%dT%H:%M:%S", -600, 43200)] }

InitStale ==
    /\ pc = "idle"
    /\ \E latest_period \in StalePeriods,
          now_dt \in {DateTime(0, 0), DateTime(0, 43200)},
          stale_after_days \in {0, 540, 600} :
          input = [latest_period |-> latest_period, now_dt |-> now_dt,
                   stale_after_days |-> stale_after_days]
    /\ output = None

Call_assess_staleness ==
    /\ pc = "idle"
    /\ pc' = "assess_staleness"
    /\ output' = assess_staleness(input.latest_period, input.now_dt,
                                  input.stale_after_days)
    /\ UNCHANGED input

NextStale == Call_assess_staleness

SpecStale == InitStale /\ [][NextStale]_vars

----------------------------------------------------------------------------
(* Properties of the staleness check *)

\* C20: assess_staleness returns (True, None) when the latest period is
\* absent or has no parseable date; otherwise age_days is the number of whole
\* days from the period's date to now, and is_outdated is true exactly when
\* age_days > stale_after_days.
C20_Staleness ==
    pc = "assess_staleness" =>
        IF IsNone(input.latest_period) \/ ~HasDate(input.latest_period)
        THEN output = [is_outdated |-> TRUE, age_days |-> None]
        ELSE LET seconds == Stamp(input.now_dt)
                               - Stamp(_extract_period_date(input.latest_period))
             IN  \E age \in -2..601 :
                    /\ age * 86400 <= seconds /\ seconds < (age + 1) * 86400
                    /\ output.age_days = Num(age)
                    /\ output.is_outdated = (age > input.stale_after_days)

\* a period 600 days old with a limit of 540 days gives (True, 600)
C20_Witness ==
    /\ pc = "assess_staleness"
    /\ input.latest_period = [statement_date |-> DateStr("%Y-%m-%d", -600, 0)]
    /\ input.stale_after_days = 540
    /\ output = [is_outdated |-> TRUE, age_days |-> Num(600)]

----------------------------------------------------------------------------
(* Properties of the flags and the convenience booleans of the result *)

\* C21: in every result passes_price_to_ncav_rule is true exactly when the
\* green flags hold "Trading <= 2/3 NCAV", and has_recent_buyback is true
\* exactly when they hold "Meaningful buyback in last 3y".
C21_BooleansMirrorFlags ==
    pc = "analyze_one_ticker" /\ Tag(output) = "ValuationResult" =>
        /\ output.passes_price_to_ncav_rule
              <=> "Trading <= 2/3 NCAV" \in Elems(output.green_flags)
        /\ output.has_recent_buyback
              <=> "Meaningful buyback in last 3y" \in Elems(output.green_flags)

\* a result with both booleans set, the buyback one for a share count that
\* fell by less than 10%
C21_Witness ==
    /\ pc = "analyze_one_ticker"
    /\ Tag(output) = "ValuationResult"
    /\ output.passes_price_to_ncav_rule
    /\ output.has_recent_buyback
    /\ RatLt(Rat(-10, 100), output.max_buyback_3y)
    /\ "Trading <= 2/3 NCAV" \in Elems(output.green_flags)
    /\ "Meaningful buyback in last 3y" \in Elems(output.green_flags)
----------------------------------------------------------------------------
(* Specification of the relative change: one call of pct_change on two     *)
(* Optional[float] arguments                                               *)

\* absent, zero, and values of both signs, equal, larger and smaller
PctValues ==
    { None, Num(0), Num(100), Num(80), Num(50), Num(120), Num(-100), Num(-80),
      Num(-120), Rat(1, 2), Rat(-1, 2) }

InitPct ==
    /\ pc = "idle"
    /\ \E old \in PctValues, new \in PctValues : input = [old |-> old, new |-> new]
    /\ output = None

Call_pct_change ==
    /\ pc = "idle"
    /\ pc' = "pct_change"
    /\ output' = pct_change(input.old, input.new)
    /\ UNCHANGED input

NextPct == Call_pct_change

SpecPct == InitPct /\ [][NextPct]_vars

\* C22: pct_change(old, new) is absent exactly when old is absent, new is
\* absent or old is 0; otherwise it is (new - old)/|old|, positive exactly
\* when new > old, also for a negative old; pct_change(100, 80) is -0.2.
C22_PctChange ==
    pc = "pct_change" =>
        /\ IsNone(output)
              <=> IsNone(input.old) \/ IsNone(input.new) \/ input.old = Num(0)
        /\ ~IsNone(output) =>
              /\ RatMul(output, RatAbs(input.old)) = RatSub(input.new, input.old)
              /\ RatLt(Num(0), output) <=> RatLt(input.old, input.new)
        /\ input.old = Num(100) /\ input.new = Num(80) => output = Rat(-2, 10)

\* growth from a negative old value
C22_Witness ==
    /\ pc = "pct_change"
    /\ input.old = Num(-100) /\ input.new = Num(-80)
    /\ output = Rat(2, 10)
----------------------------------------------------------------------------
(* Properties of the NCAV and the current ratio of a period; the fields CA, *)
(* TA, TL and CL of a period are what a read of the period gives           *)

CA(p) == NestedFirstRead(p, "assets_current")

TA(p) == NestedFirstRead(p, "assets_total")

TL(p) == NestedFirstRead(p, "liab_total")

CL(p) == NestedFirstRead(p, "liab_current")

\* C23: the native NCAV of a period is CA - TL when CA is present, TA - TL
\* when CA is absent and TA present (TA = 500, TL = 300 gives 200), and absent
\* exactly when TL is absent or CA and TA are both absent; an absent field is
\* never taken for 0.
C23_NcavNative ==
    pc = "ncav_total_native" =>
        LET p == input.period
        IN  /\ IsNone(output) <=> IsNone(TL(p)) \/ (IsNone(CA(p)) /\ IsNone(TA(p)))
            /\ ~IsNone(CA(p)) /\ ~IsNone(TL(p)) => output = RatSub(CA(p), TL(p))
            /\ IsNone(CA(p)) /\ ~IsNone(TA(p)) /\ ~IsNone(TL(p)) =>
                  output = RatSub(TA(p), TL(p))
            /\ p = [assets_total |-> Num(500), liab_total |-> Num(300)] =>
                  output = Num(200)

\* the period with total assets 500, total liabilities 300 and nothing else
C23_Witness ==
    /\ pc = "ncav_total_native"
    /\ input.period = [assets_total |-> Num(500), liab_total |-> Num(300)]
    /\ output = Num(200)

\* C24: the current ratio of a period is absent if and only if CL is absent
\* or 0 or CA is absent; otherwise it is CA / CL.
C24_CurrentRatio ==
    pc = "current_ratio" =>
        LET p == input.period
        IN  /\ IsNone(output)
                  <=> IsNone(CL(p)) \/ CL(p) = Num(0) \/ IsNone(CA(p))
            /\ ~IsNone(output) => RatMul(output, CL(p)) = CA(p)

\* current assets over a zero of current liabilities
C24_Witness ==
    /\ pc = "current_ratio"
    /\ ~IsNone(CA(input.period))
    /\ CL(input.period) = Num(0)
    /\ IsNone(output)
----------------------------------------------------------------------------
(* application/build_shortlist_service.py: the fundamentals step of        *)
(* BuildShortlistService.run.  Every ticker of the list is submitted to    *)
(* the thread pool as a future of its own; the futures finish in any       *)
(* order, and the loop over as_completed collects a finished future at a   *)
(* time.  The futures are named by their position in the list.             *)

\* the most tickers of the universe
MaxTickers == 3

Tickers == {"A.US", "B.HK"}

\* order_map = {t: i for i, t in enumerate(tickers)}: a later position of a
\* ticker overwrites an earlier one
order_map(tickers) ==
    [t \in {tickers[i] : i \in 1..Len(tickers)} |->
        CHOOSE i \in 1..Len(tickers) :
            /\ tickers[i] = t
            /\ \A j \in 1..Len(tickers) : tickers[j] = t => j <= i]

\* the record _one returned for the ticker h
FetchedRow(h) == [ticker |-> h, note |-> "fetched"]

\* the placeholder of lines 122-136 for a future that raised
ErrorRow(h) == [ticker |-> h, note |-> "error"]

\* results.sort(key=lambda x: x[0]): stable, ascending in the position
RECURSIVE SortByPosition(_)
SortByPosition(results) ==
    IF results = <<>> THEN <<>>
    ELSE LET rest == SortByPosition(Tail(results))
             x    == Head(results)
             lower == SelectSeq(rest, LAMBDA y : y.order < x.order)
             upper == SelectSeq(rest, LAMBDA y : y.order >= x.order)
         IN  lower \o <<x>> \o upper

\* rows = [rec for _, rec in results]
RowsOf(results) == [i \in 1..Len(results) |-> results[i].rec]

InitShortlist ==
    /\ pc = "idle"
    /\ input = [tickers |-> <<>>]
    /\ output = None

\* the universe repository delivers one more row
LoadTicker ==
    /\ pc = "idle"
    /\ Len(input.tickers) < MaxTickers
    /\ \E t \in Tickers : input' = [input EXCEPT !.tickers = Append(@, t)]
    /\ UNCHANGED <<pc, output>>

\* lines 107-116: every ticker is submitted
Submit ==
    /\ pc = "idle"
    /\ Len(input.tickers) > 0
    /\ pc' = "as_completed"
    /\ output' = [futs |-> [i \in 1..Len(input.tickers) |-> "pending"],
                  results |-> <<>>]
    /\ UNCHANGED input

\* a worker thread finishes _one with a record
WorkerReturns ==
    /\ pc = "as_completed"
    /\ \E i \in DOMAIN output.futs :
          /\ output.futs[i] = "pending"
          /\ output' = [output EXCEPT !.futs[i] = "returned"]
    /\ UNCHANGED <<pc, input>>

\* a worker thread ends _one with an exception
WorkerRaises ==
    /\ pc = "as_completed"
    /\ \E i \in DOMAIN output.futs :
          /\ output.futs[i] = "pending"
          /\ output' = [output EXCEPT !.futs[i] = "raised"]
    /\ UNCHANGED <<pc, input>>

\* lines 117-138: the loop takes a finished future and appends its record
\* under the position order_map has for its ticker
Collect ==
    /\ pc = "as_completed"
    /\ \E i \in DOMAIN output.futs :
          /\ output.futs[i] \in {"returned", "raised"}
          /\ LET h   == input.tickers[i]
                 rec == IF output.futs[i] = "returned" THEN FetchedRow(h)
                        ELSE ErrorRow(h)
             IN  output' =
                    [futs |-> [output.futs EXCEPT
                                  ![i] = IF @ = "returned" THEN "collected"
                                         ELSE "collected error"],
                     results |-> Append(output.results,
                                        [order |-> order_map(input.tickers)[h],
                                         rec |-> rec])]
    /\ UNCHANGED <<pc, input>>

\* lines 142-143: every future is collected; the results are sorted and the
\* rows taken from them
EmitRows ==
    /\ pc = "as_completed"
    /\ \A i \in DOMAIN output.futs : output.futs[i] \in {"collected", "collected error"}
    /\ pc' = "run"
    /\ output' = [futs |-> output.futs,
                  rows |-> RowsOf(SortByPosition(output.results))]
    /\ UNCHANGED input

NextShortlist ==
    \/ LoadTicker
    \/ Submit
    \/ WorkerReturns
    \/ WorkerRaises
    \/ Collect
    \/ EmitRows

SpecShortlist == InitShortlist /\ [][NextShortlist]_vars

\* C25: run emits the fundamentals rows in the order of the ticker list,
\* whatever order the workers finish in and also with a ticker listed more
\* than once: one row for every submitted ticker, the i-th row for the i-th
\* ticker, an error placeholder where the worker raised.
C25_RowsInTickerOrder ==
    pc = "run" =>
        /\ Len(output.rows) = Len(input.tickers)
        /\ \A i \in 1..Len(input.tickers) :
              output.rows[i] = IF output.futs[i] = "collected error"
                               THEN ErrorRow(input.tickers[i])
                               ELSE FetchedRow(input.tickers[i])
----------------------------------------------------------------------------
(* tools/ncav_cache.py: build_or_update.  The cache file of the ticker is  *)
(* input.cache (None: no file), the clock input.now; the fetch runs in a   *)
(* worker thread whose result the caller awaits with a timeout.            *)

\* the most calls of build_or_update, one reading of the clock apart
MaxCalls == 5

NcavRecord(statement_date, ncav_ps, cached_at, statement_sig, note) ==
    [k |-> "NcavRecord", ticker |-> Str("A.US"), statement_date |-> statement_date,
     ncav_ps |-> ncav_ps, cached_at |-> cached_at, statement_sig |-> statement_sig,
     note |-> note]

\* what from_yahoo builds at the time now: a statement, a newer statement, or
\* no viable column
FetchedRecords(now) ==
    { NcavRecord(Str("2024-12-31"), Num(5), now, Str("sig-2024"), None),
      NcavRecord(Str("2025-12-31"), Num(6), now, Str("sig-2025"), None),
      NcavRecord(None, None, now, Str("sig-none"), Str("no shares_out")) }

\* lines 344-345 and 349-350: the record without data
Placeholder(now, note) == NcavRecord(None, None, now, Str(""), Str(note))

\* prev.cached_at = now
Touched(prev, now) == [prev EXCEPT !.cached_at = now]

\* lines 351-353: the record saved and returned with the fetched or the
\* placeholder record cur
SavedRecord(prev, cur, now) ==
    IF ~IsNone(prev) /\ prev.statement_sig = cur.statement_sig
    THEN Touched(prev, now) ELSE cur

InitCache ==
    /\ pc = "idle"
    /\ input = [cache |-> None, now |-> 0, prev |-> None, fetch |-> "none"]
    /\ output = None

\* line 336-340: the cached record is loaded and the fetch submitted
Call_build_or_update ==
    /\ pc \in {"idle", "build_or_update"}
    /\ input.now < MaxCalls
    /\ pc' = "fetch"
    /\ input' = [input EXCEPT !.prev = input.cache, !.now = @ + 1, !.fetch = "none"]
    /\ output' = None

\* the fetch returns a record within the timeout
FetchReturns ==
    /\ pc = "fetch"
    /\ pc' = "build_or_update"
    /\ \E cur \in FetchedRecords(input.now) :
          /\ output' = SavedRecord(input.prev, cur, input.now)
          /\ input' = [input EXCEPT !.fetch = "success",
                                    !.cache = SavedRecord(input.prev, cur, input.now)]

\* lines 341-345: result(timeout) raises TimeoutError
FetchTimesOut ==
    /\ pc = "fetch"
    /\ pc' = "build_or_update"
    /\ LET rec == IF ~IsNone(input.prev) THEN Touched(input.prev, input.now)
                  ELSE SavedRecord(input.prev, Placeholder(input.now, "timeout"),
                                   input.now)
       IN  /\ output' = rec
           /\ input' = [input EXCEPT !.fetch = "timeout", !.cache = rec]

\* lines 346-350: the fetch raises; without a cached record the handler
\* evaluates the name timezoneutc, which is not defined, and the NameError
\* leaves build_or_update
FetchRaises ==
    /\ pc = "fetch"
    /\ pc' = "build_or_update"
    /\ IF ~IsNone(input.prev)
       THEN /\ output' = Touched(input.prev, input.now)
            /\ input' = [input EXCEPT !.fetch = "exception",
                                      !.cache = Touched(input.prev, input.now)]
       ELSE /\ output' = Raise("NameError")
            /\ input' = [input EXCEPT !.fetch = "exception"]

NextCache ==
    \/ Call_build_or_update
    \/ FetchReturns
    \/ FetchTimesOut
    \/ FetchRaises

SpecCache == InitCache /\ [][NextCache]_vars

\* C26: build_or_update ends by returning a record that has been written to
\* the cache, on success, timeout and exception of the fetch, with and
\* without a cached record; on timeout or exception with a cached record,
\* and on success with an unchanged statement signature, it is the cached
\* record with only cached_at changed; on timeout or exception without a
\* cached record it is a placeholder noted "timeout" or "error".
C26_AlwaysCachedRecord ==
    pc = "build_or_update" =>
        /\ Tag(output) = "NcavRecord"
        /\ input.cache = output
        /\ ~IsNone(input.prev) /\ input.fetch \in {"timeout", "exception"} =>
              output = Touched(input.prev, input.now)
        /\ ~IsNone(input.prev) /\ input.fetch = "success"
              /\ output.statement_sig = input.prev.statement_sig =>
              output = Touched(input.prev, input.now)
        /\ IsNone(input.prev) /\ input.fetch = "timeout" =>
              output = Placeholder(input.now, "timeout")
        /\ IsNone(input.prev) /\ input.fetch = "exception" =>
              output = Placeholder(input.now, "error")
----------------------------------------------------------------------------
(* Properties of the two share-count lookups *)

\* C27: for every period the share count the windowed-extrema search sees
\* (_shares_out) is the share count the orchestrator uses for the period
\* (_extract_shares_out), also for a count stored in the balance container or
\* as a {val: ...} record.
C27_SameShareCount ==
    pc = "_shares_out" => output = _extract_shares_out(input.period)
----------------------------------------------------------------------------
(* Properties of the value flag *)

\* C28: the green flag "Trading <= 2/3 NCAV", and passes_price_to_ncav_rule,
\* appear in a result only if ncav_per_share is positive and the price is at
\* most two thirds of it; a negative NCAV per share never receives it.
C28_ValueFlagNeedsPositiveNcav ==
    /\ pc = "analyze_one_ticker"
    /\ Tag(output) = "ValuationResult"
    /\ \/ "Trading <= 2/3 NCAV" \in Elems(output.green_flags)
       \/ output.passes_price_to_ncav_rule
    =>  /\ Positive(output.ncav_per_share)
        /\ ~IsNone(output.last_price)
        /\ RatLe(output.last_price, RatMul(Rat(2, 3), output.ncav_per_share))
----------------------------------------------------------------------------
(* Properties of the windowed extrema in the result *)

\* C29: in every result, when max_dilution_1y is present then max_issue_3y
\* is present and at least as large; so whenever the red flags hold
\* "Issued >8% in last 12m" or "Issued >20% in last 3y", has_recent_dilution
\* is true.
C29_WindowsNested ==
    pc = "analyze_one_ticker" /\ Tag(output) = "ValuationResult" =>
        /\ ~IsNone(output.max_dilution_1y) =>
              /\ ~IsNone(output.max_issue_3y)
              /\ RatLe(output.max_dilution_1y, output.max_issue_3y)
        /\ \/ "Issued >8% in last 12m" \in Elems(output.red_flags)
           \/ "Issued >20% in last 3y" \in Elems(output.red_flags)
           => output.has_recent_dilution

\* 110 shares after 90 within a year: both flags and the boolean
C29_Witness ==
    /\ pc = "analyze_one_ticker"
    /\ Tag(output) = "ValuationResult"
    /\ output.max_dilution_1y = Rat(20, 90)
    /\ output.max_issue_3y = Rat(20, 90)
    /\ "Issued >8% in last 12m" \in Elems(output.red_flags)
    /\ "Issued >20% in last 3y" \in Elems(output.red_flags)
    /\ output.has_recent_dilution
----------------------------------------------------------------------------
(* Properties of the 12-month issuance flag *)

\* C30: the red flag "Issued >8% in last 12m" is raised only if some pair of
\* periods that both lie within 365 days of the newest period of the
\* timeline shows a share-count growth above 8%; a pair of periods both more
\* than 365 days older than the newest never triggers it.
C30_IssuedInLastYear ==
    /\ pc = "max_dilution_within_1y"
    /\ "Issued >8% in last 12m"
          \in Elems(classify_flags(None, None, None, None, None, None, None, None,
                                   None, output, None, None, FALSE).red)
    =>  LET dated == Dated(input.periods)
        IN  \E i, j \in 1..Len(dated) :
                /\ i < j
                /\ GapDays(dated, 1, i) <= 365
                /\ GapDays(dated, 1, j) <= 365
                /\ LET chg == pct_change(_shares_out(dated[j]), _shares_out(dated[i]))
                   IN  ~IsNone(chg) /\ RatLt(Rat(8, 100), chg)
====
